---- MODULE Spec2Model ----
(***************************************************************************)
(* State-machine model of garava, the one-way Garmin -> Strava sync        *)
(* engine: the SQLite store (database.py), the activity filter             *)
(* (sync/filters.py), the upload pipeline (strava/upload.py), the         *)
(* per-activity processor (sync/processor.py) and the cycle orchestration  *)
(* (sync/core.py).                                                         *)
(*                                                                         *)
(* Text is modelled as a sequence of one-character strings, so lower(),    *)
(* strip(), replace(), "in" and "<" are computed character by character.   *)
(* An optional value (Python None) is <<>>, a present value x is <<x>>.    *)
(* An f-string is a record [pre, txt]: a fixed prefix followed by the      *)
(* interpolated text.                                                      *)
(***************************************************************************)
EXTENDS Integers, Sequences, FiniteSets, TLC

(***************************************************************************)
(* Bounds of the model.                                                    *)
(***************************************************************************)
\* number of cycles run in one behaviour
MaxCycles == 2
\* the clock counts ticks of SecondsPerTick seconds, up to MaxClock ticks
MaxClock == 1
SecondsPerTick == 150
\* lifetime, in seconds, of a token issued by the destination platform
TokenLifetime == 400
\* Config.fetch_limit of the modelled deployment (GARAVA_FETCH_LIMIT)
FetchLimit == 2

(***************************************************************************)
(* Program constants.                                                      *)
(***************************************************************************)
\* StravaToken.is_expired(buffer_seconds=300)
BufferSeconds == 300

None == <<>>
Some(x) == <<x>>

(***************************************************************************)
(* Text: characters in code-point order, str.lower, str.strip,             *)
(* str.replace, substring test, and the lexical order of str.__lt__.       *)
(***************************************************************************)
UpperLetters == <<"A","B","C","D","E","F","G","H","I","J","K","L","M",
                  "N","O","P","Q","R","S","T","U","V","W","X","Y","Z">>
LowerLetters == <<"a","b","c","d","e","f","g","h","i","j","k","l","m",
                  "n","o","p","q","r","s","t","u","v","w","x","y","z">>
Digits == <<"0","1","2","3","4","5","6","7","8","9">>

\* the characters of the model in ascending code-point order
CodeOrder == <<" ">> \o Digits \o <<":">> \o UpperLetters \o <<"_">> \o LowerLetters

Ord(c) == CHOOSE i \in 1..Len(CodeOrder) : CodeOrder[i] = c

IsDigit(c) == \E i \in 1..Len(Digits) : Digits[i] = c

IsSpace(c) == c = " "

LowerChar(c) ==
    IF \E i \in 1..Len(UpperLetters) : UpperLetters[i] = c
    THEN LowerLetters[CHOOSE i \in 1..Len(UpperLetters) : UpperLetters[i] = c]
    ELSE c

Lower(s) == [i \in 1..Len(s) |-> LowerChar(s[i])]

Strip(s) ==
    LET keep == {i \in 1..Len(s) : ~IsSpace(s[i])}
    IN IF keep = {} THEN <<>>
       ELSE LET lo == CHOOSE i \in keep : \A j \in keep : i <= j
                hi == CHOOSE i \in keep : \A j \in keep : j <= i
            IN SubSeq(s, lo, hi)

ReplaceChar(s, old, new) == [i \in 1..Len(s) |-> IF s[i] = old THEN new ELSE s[i]]

Contains(hay, needle) ==
    \E i \in 1..(Len(hay) - Len(needle) + 1) :
        SubSeq(hay, i, i + Len(needle) - 1) = needle

\* a < b for Python strings: first differing character decides, a proper
\* prefix is smaller
LexLess(a, b) ==
    \/ /\ Len(a) < Len(b)
       /\ SubSeq(b, 1, Len(a)) = a
    \/ \E i \in 1..Len(a) :
          /\ i <= Len(b)
          /\ SubSeq(a, 1, i - 1) = SubSeq(b, 1, i - 1)
          /\ Ord(a[i]) < Ord(b[i])

\* the text of an f-string record
Fmt(pre, txt) == [pre |-> pre, txt |-> txt]

\* bool(str) of an f-string record
Truthy(f) == f.pre # "" \/ f.txt # <<>>

(***************************************************************************)
(* Persistent store: the activities table.  A row is a record; the table   *)
(* is the set of its rows.  garmin_activity_id is declared UNIQUE, so an   *)
(* INSERT of an id that already has a row raises sqlite3.IntegrityError    *)
(* and leaves the table unchanged.  processed_at, created_at and           *)
(* activity_name are not modelled: no modelled decision reads them.        *)
(***************************************************************************)
SYNCED == "synced"
SKIPPED == "skipped"
FAILED == "failed"
DUPLICATE == "duplicate"
ActivityStatus == {SYNCED, SKIPPED, FAILED, DUPLICATE}

\* Activity(...) as the _record_* helpers build it, before the store
\* assigns the surrogate id
Activity(ga, status, strava_id, skip_reason, error_message) ==
    [id |-> 0,
     garmin_activity_id |-> ga.activity_id,
     activity_type |-> ga.activity_type,
     garmin_start_time |-> ga.start_time,
     status |-> status,
     strava_activity_id |-> strava_id,
     skip_reason |-> skip_reason,
     error_message |-> error_message]

\* faulty variant: a DUPLICATE row does not count as already processed
activity_exists_not_duplicate(rows, gid) ==
    \E r \in rows : r.garmin_activity_id = gid /\ r.status \notin {FAILED, DUPLICATE}

\* faulty variant: only SYNCED rows count as already processed
activity_exists_synced_only(rows, gid) ==
    \E r \in rows : r.garmin_activity_id = gid /\ r.status = SYNCED

activity_exists(rows, gid) ==
    \E r \in rows : r.garmin_activity_id = gid /\ r.status # FAILED

get_activity(rows, gid) ==
    IF \E r \in rows : r.garmin_activity_id = gid
    THEN Some(CHOOSE r \in rows : r.garmin_activity_id = gid)
    ELSE None

\* the UNIQUE constraint of activities.garmin_activity_id
UniqueViolated(rows, gid) == \E r \in rows : r.garmin_activity_id = gid

\* AUTOINCREMENT: one more than the largest id ever assigned (rows are
\* never deleted by the engine)
NextRowId(rows) == Cardinality(rows) + 1

\* faulty variant: INSERT OR REPLACE, the row of the same id is replaced
insert_activity_replace(rows, a) ==
    LET stored == [a EXCEPT !.id = NextRowId(rows)]
    IN [raised |-> "",
        rows |-> {r \in rows : r.garmin_activity_id # a.garmin_activity_id} \cup {stored},
        activity |-> stored]

\* Database.insert_activity
insert_activity(rows, a) ==
    IF UniqueViolated(rows, a.garmin_activity_id)
    THEN [raised |-> "IntegrityError", rows |-> rows, activity |-> a]
    ELSE LET stored == [a EXCEPT !.id = NextRowId(rows)]
         IN [raised |-> "", rows |-> rows \cup {stored}, activity |-> stored]

(***************************************************************************)
(* Activity filter.                                                        *)
(***************************************************************************)
\* ActivityFilter.__init__: the block-set, lowercased and stripped
ActivityFilter(blocked_types) == {Strip(Lower(t)) : t \in blocked_types}

\* faulty variant: the classification is compared as written
should_sync_case_sensitive(filter, activity_type) == Strip(activity_type) \notin filter

should_sync(filter, activity_type) == Strip(Lower(activity_type)) \notin filter

get_block_reason(filter, activity_type) ==
    IF ~should_sync(filter, activity_type)
    THEN Some(Fmt("blocked_type:", Lower(activity_type)))
    ELSE None

(***************************************************************************)
(* Upload pipeline.  A provider behaviour is what                          *)
(* client.upload_activity(...).wait(...) does: it returns an activity id,  *)
(* raises ActivityUploadFailed(msg), raises TimeoutExceeded, or raises     *)
(* some other exception with text msg.                                     *)
(***************************************************************************)
IsSep(c) == c = ":" \/ IsSpace(c)

\* last index of the maximal run of digits starting at j (j-1 if none)
DigitRunEnd(text, j) ==
    CHOOSE k \in (j - 1)..Len(text) :
        /\ \A m \in j..k : IsDigit(text[m])
        /\ (k = Len(text) \/ ~IsDigit(text[k + 1]))

\* last index of the maximal run of ':' / whitespace starting at j
SepRunEnd(text, j) ==
    CHOOSE k \in (j - 1)..Len(text) :
        /\ \A m \in j..k : IsSep(text[m])
        /\ (k = Len(text) \/ ~IsSep(text[k + 1]))

\* re.search(kw + r"[:\s]+(\d+)", text, re.IGNORECASE) matches at i
KeywordMatchAt(text, kw, i) ==
    /\ i + Len(kw) - 1 <= Len(text)
    /\ Lower(SubSeq(text, i, i + Len(kw) - 1)) = kw
    /\ SepRunEnd(text, i + Len(kw)) >= i + Len(kw)
    /\ DigitRunEnd(text, SepRunEnd(text, i + Len(kw)) + 1)
          >= SepRunEnd(text, i + Len(kw)) + 1

KeywordSearch(text, kw) ==
    LET hits == {i \in 1..Len(text) : KeywordMatchAt(text, kw, i)}
    IN IF hits = {} THEN None
       ELSE LET i == CHOOSE h \in hits : \A g \in hits : h <= g
                d == SepRunEnd(text, i + Len(kw)) + 1
            IN Some(SubSeq(text, d, DigitRunEnd(text, d)))

\* re.search(r"(\d{10,})", text)
LongDigitSearch(text) ==
    LET hits == {i \in 1..Len(text) : DigitRunEnd(text, i) - i + 1 >= 10}
    IN IF hits = {} THEN None
       ELSE LET i == CHOOSE h \in hits : \A g \in hits : h <= g
            IN Some(SubSeq(text, i, DigitRunEnd(text, i)))

\* faulty variant: the 'id' pattern is tried before the 'activity' pattern
_parse_duplicate_id_id_first(error_message) ==
    IF KeywordSearch(error_message, <<"i","d">>) # None
    THEN KeywordSearch(error_message, <<"i","d">>)
    ELSE IF KeywordSearch(error_message, <<"a","c","t","i","v","i","t","y">>) # None
    THEN KeywordSearch(error_message, <<"a","c","t","i","v","i","t","y">>)
    ELSE LongDigitSearch(error_message)

_parse_duplicate_id(error_message) ==
    IF KeywordSearch(error_message, <<"a","c","t","i","v","i","t","y">>) # None
    THEN KeywordSearch(error_message, <<"a","c","t","i","v","i","t","y">>)
    ELSE IF KeywordSearch(error_message, <<"i","d">>) # None
    THEN KeywordSearch(error_message, <<"i","d">>)
    ELSE LongDigitSearch(error_message)

\* answers of the destination platform to an upload
UploadBehaviours ==
    { [kind |-> "success", id |-> <<"9","1">>, msg |-> <<>>],
      [kind |-> "upload_failed", id |-> <<>>,
       msg |-> <<"D","u","p","l","i","c","a","t","e"," ","o","f"," ",
                 "a","c","t","i","v","i","t","y"," ","7","7">>],
      [kind |-> "upload_failed", id |-> <<>>,
       msg |-> <<"d","u","p","l","i","c","a","t","e">>],
      [kind |-> "upload_failed", id |-> <<>>, msg |-> <<"b","a","d">>],
      [kind |-> "timeout", id |-> <<>>, msg |-> <<"l","a","t","e">>],
      [kind |-> "exception", id |-> <<>>,
       msg |-> <<"d","u","p","l","i","c","a","t","e">>] }

UploadResult(success, strava_activity_id, error, is_duplicate, duplicate_id) ==
    [success |-> success,
     strava_activity_id |-> strava_activity_id,
     error |-> error,
     is_duplicate |-> is_duplicate,
     duplicate_id |-> duplicate_id]

DuplicateWord == <<"d","u","p","l","i","c","a","t","e">>

\* faulty variant: the duplicate test forgets str.lower()
upload_fit_file_case_sensitive(behaviour) ==
    CASE behaviour.kind = "success" ->
            UploadResult(TRUE, Some(behaviour.id), None, FALSE, None)
      [] behaviour.kind = "upload_failed" ->
            IF Contains(behaviour.msg, DuplicateWord)
            THEN UploadResult(TRUE, _parse_duplicate_id(behaviour.msg), None,
                              TRUE, _parse_duplicate_id(behaviour.msg))
            ELSE UploadResult(FALSE, None, Some(Fmt("", behaviour.msg)),
                              FALSE, None)
      [] behaviour.kind = "timeout" ->
            UploadResult(FALSE, None,
                         Some(Fmt("Upload processing timed out after 120 seconds",
                                  <<>>)),
                         FALSE, None)
      [] OTHER ->
            UploadResult(FALSE, None, Some(Fmt("", behaviour.msg)), FALSE, None)

upload_fit_file(behaviour) ==
    CASE behaviour.kind = "success" ->
            UploadResult(TRUE, Some(behaviour.id), None, FALSE, None)
      [] behaviour.kind = "upload_failed" ->
            IF Contains(Lower(behaviour.msg), DuplicateWord)
            THEN UploadResult(TRUE, _parse_duplicate_id(behaviour.msg), None,
                              TRUE, _parse_duplicate_id(behaviour.msg))
            ELSE UploadResult(FALSE, None, Some(Fmt("", behaviour.msg)),
                              FALSE, None)
      [] behaviour.kind = "timeout" ->
            UploadResult(FALSE, None,
                         Some(Fmt("Upload processing timed out after 120 seconds",
                                  <<>>)),
                         FALSE, None)
      [] OTHER ->
            UploadResult(FALSE, None, Some(Fmt("", behaviour.msg)), FALSE, None)

(***************************************************************************)
(* Source platform: download and extraction.  A download behaviour is what *)
(* download_fit_file does for the activity: "fit" returns the telemetry    *)
(* bytes, "bad_archive" raises FitExtractionError (extraction failed),     *)
(* "garth_error" is a GarthException raised by the archive download.       *)
(***************************************************************************)
DownloadBehaviours == {"fit", "bad_archive", "garth_error"}

\* An archive (zip_bytes) is a record: valid is whether zipfile.ZipFile
\* accepts it, entries its members in listing order, each [name, data].
Archive(valid, entries) == [valid |-> valid, entries |-> entries]

\* name.lower().endswith(".fit")
IsFitName(name) ==
    /\ Len(name) >= 4
    /\ SubSeq(Lower(name), Len(name) - 3, Len(name)) = <<".","f","i","t">>

\* zf.read(name): ZipFile looks the name up in its name table, in which a
\* later member replaces an earlier member of the same name
ZipRead(entries, name) ==
    entries[CHOOSE i \in 1..Len(entries) :
               /\ entries[i].name = name
               /\ \A j \in 1..Len(entries) : entries[j].name = name => j <= i].data

\* extract_fit_from_zip
extract_fit_from_zip(zip_bytes) ==
    IF ~zip_bytes.valid
    THEN [raised |-> "FitExtractionError", msg |-> "Invalid ZIP file", bytes |-> None]
    ELSE LET fit_files == SelectSeq([i \in 1..Len(zip_bytes.entries) |->
                                        zip_bytes.entries[i].name], IsFitName)
         IN IF fit_files = <<>>
            THEN [raised |-> "FitExtractionError",
                  msg |-> "No FIT file found in ZIP archive", bytes |-> None]
            ELSE [raised |-> "", msg |-> "",
                  bytes |-> Some(ZipRead(zip_bytes.entries, fit_files[1]))]

\* the archive the source platform answers under a download behaviour
ArchiveOf(behaviour) ==
    IF behaviour = "fit"
    THEN Archive(TRUE, <<[name |-> <<"1",".","f","i","t">>, data |-> "fit bytes"]>>)
    ELSE Archive(FALSE, <<>>)

\* download_fit_file: the client's download, then the extraction, whose
\* exceptions are all turned into FitExtractionError
download_fit_file(behaviour, activity_id) ==
    IF behaviour = "garth_error"
    THEN [raised |-> "GarthException", msg |-> <<"4","0","1">>]
    ELSE IF extract_fit_from_zip(ArchiveOf(behaviour)).raised # ""
    THEN [raised |-> "FitExtractionError", msg |-> activity_id]
    ELSE [raised |-> "", msg |-> <<>>]

(***************************************************************************)
(* Activity processor.  process_activity is a function of the table, the   *)
(* activity, the filter, the boundary and what the two platforms do; its   *)
(* value holds the new table, the ProcessResult and the calls it made.     *)
(* raised is "" when it returns and the exception's class when it raises.  *)
(***************************************************************************)
ProcessOutcome(raised, action, ins, downloads, uploads, uploadResult) ==
    CHOOSE outcome \in
        { [raised |-> IF raised # "" THEN raised ELSE i.raised,
           action |-> IF raised # "" \/ i.raised # "" THEN "" ELSE action,
           activity |-> i.activity,
           rows |-> i.rows,
           downloads |-> downloads,
           uploads |-> uploads,
           upload |-> uploadResult] : i \in {ins} } : TRUE

_record_synced(rows, ga, strava_id) ==
    insert_activity(rows, Activity(ga, SYNCED, strava_id, None, None))

\* faulty variant: the reason is stored as the error detail
_record_skipped_as_error(rows, ga, reason) ==
    insert_activity(rows, Activity(ga, SKIPPED, None, None, reason))

_record_skipped(rows, ga, reason) ==
    insert_activity(rows, Activity(ga, SKIPPED, None, reason, None))

_record_duplicate(rows, ga, strava_id) ==
    insert_activity(rows, Activity(ga, DUPLICATE, strava_id, None, None))

_record_failed(rows, ga, error) ==
    insert_activity(rows, Activity(ga, FAILED, None, None, Some(error)))

\* faulty variant: the comparison is the wrong way round
BeforeBoundary_swapped(start_time, initial_sync_time) ==
    LexLess(ReplaceChar(initial_sync_time, " ", "T"),
            ReplaceChar(start_time, " ", "T"))

\* activity_time < sync_time after replace(" ", "T") on both
BeforeBoundary(start_time, initial_sync_time) ==
    LexLess(ReplaceChar(start_time, " ", "T"),
            ReplaceChar(initial_sync_time, " ", "T"))

\* upload_fit_file on each behaviour of the model, computed once
UploadResults == [b \in UploadBehaviours |-> upload_fit_file(b)]

\* lines 88-107: upload and record the result
UploadAndRecord(rows, ga, up) ==
    LET result == UploadResults[up]
    IN IF result.is_duplicate
       THEN ProcessOutcome("", "duplicate",
                           _record_duplicate(rows, ga, result.duplicate_id),
                           1, 1, Some(result))
       ELSE IF result.success
       THEN ProcessOutcome("", "synced",
                           _record_synced(rows, ga, result.strava_activity_id),
                           1, 1, Some(result))
       ELSE ProcessOutcome("", "failed",
                           _record_failed(rows, ga,
                               IF result.error # None /\ Truthy(result.error[1])
                               THEN result.error[1]
                               ELSE Fmt("Unknown error", <<>>)),
                           1, 1, Some(result))

process_activity(rows, ga, filter, initial_sync_time, dl, up) ==
    IF activity_exists(rows, ga.activity_id)
    THEN [raised |-> "", action |-> "exists",
          activity |-> get_activity(rows, ga.activity_id)[1],
          rows |-> rows, downloads |-> 0, uploads |-> 0, upload |-> None]
    ELSE IF ~should_sync(filter, ga.activity_type)
    THEN ProcessOutcome("", "skipped",
            _record_skipped(rows, ga, get_block_reason(filter, ga.activity_type)),
            0, 0, None)
    ELSE IF /\ initial_sync_time # None
            /\ initial_sync_time[1] # <<>>
            /\ BeforeBoundary(ga.start_time, initial_sync_time[1])
    THEN ProcessOutcome("", "skipped",
            _record_skipped(rows, ga, Some(Fmt("before_initial_sync", <<>>))),
            0, 0, None)
    ELSE LET d == download_fit_file(dl, ga.activity_id)
         IN CASE d.raised = "FitExtractionError" ->
                    ProcessOutcome("", "failed",
                        _record_failed(rows, ga,
                            Fmt("Failed to extract FIT from ZIP for activity ", d.msg)),
                        1, 0, None)
              [] d.raised # "" ->
                    ProcessOutcome("", "failed",
                        _record_failed(rows, ga, Fmt("Download failed: ", d.msg)),
                        1, 0, None)
              [] OTHER -> UploadAndRecord(rows, ga, up)

(***************************************************************************)
(* Equipment tagging (strava/gear.py).  A destination entry is a record    *)
(* [id, type, trainer, gear_id, start]; gear_id is optional.               *)
(***************************************************************************)
\* the index of the first occurrence of character c in s, 0 when absent
IndexOf(s, c) ==
    IF \A i \in 1..Len(s) : s[i] # c THEN 0
    ELSE CHOOSE i \in 1..Len(s) : s[i] = c /\ \A j \in 1..(i - 1) : s[j] # c

\* str.split(sep) for a one-character separator
RECURSIVE Split(_, _)
Split(s, sep) ==
    IF IndexOf(s, sep) = 0 THEN <<s>>
    ELSE <<SubSeq(s, 1, IndexOf(s, sep) - 1)>>
            \o Split(SubSeq(s, IndexOf(s, sep) + 1, Len(s)), sep)

GearRule(condition, gear_id) == [condition |-> condition, gear_id |-> gear_id]

\* the loop of parse_gear_rules over the comma-separated parts
RECURSIVE ParseParts(_)
ParseParts(parts) ==
    IF parts = <<>> THEN <<>>
    ELSE LET part == Strip(Head(parts))
             k == IndexOf(part, ":")
             condition == Strip(SubSeq(part, 1, k - 1))
             gear_id == Strip(SubSeq(part, k + 1, Len(part)))
         IN IF part = <<>> THEN ParseParts(Tail(parts))
            ELSE IF k = 0 THEN ParseParts(Tail(parts))
            ELSE IF condition # <<>> /\ gear_id # <<>>
            THEN <<GearRule(condition, gear_id)>> \o ParseParts(Tail(parts))
            ELSE ParseParts(Tail(parts))

parse_gear_rules(rules_str) ==
    IF Strip(rules_str) = <<>> THEN <<>> ELSE ParseParts(Split(rules_str, ","))

\* _matches_rule: str(activity.type) is the entry's type text
_matches_rule(activity, rule) ==
    IF rule.condition = <<"t","r","a","i","n","e","r">>
    THEN IF ~activity.trainer THEN FALSE
         ELSE activity.type = <<"R","i","d","e">>
    ELSE FALSE

\* faulty variant: the last matching rule is applied
FirstMatch_last(rules, activity) ==
    LET hits == {i \in 1..Len(rules) : _matches_rule(activity, rules[i])}
    IN IF hits = {} THEN None
       ELSE Some(rules[CHOOSE i \in hits : \A j \in hits : j <= i])

\* next((r for r in rules if _matches_rule(activity, r)), None)
FirstMatch(rules, activity) ==
    LET hits == {i \in 1..Len(rules) : _matches_rule(activity, rules[i])}
    IN IF hits = {} THEN None
       ELSE Some(rules[CHOOSE i \in hits : \A j \in hits : i <= j])

GearAssignmentResult == [checked |-> 0, updated |-> 0, already_correct |-> 0, errors |-> 0]

\* the pass before its first entry: the result, the update calls issued so
\* far as [id, gear_id, ok], and the entries iterated
NoPass == [result |-> GearAssignmentResult, updates |-> <<>>, iterated |-> <<>>, raised |-> ""]

\* one iteration of the loop of apply_gear_rules on entry `activity`, whose
\* update call (if one is issued) succeeds iff ok
GearStep(rules, activity, ok, acc) ==
    LET matched_rule == FirstMatch(rules, activity)
        seen == [acc EXCEPT !.result.checked = @ + 1,
                            !.iterated = Append(@, activity.id)]
    IN IF matched_rule = None THEN seen
       ELSE IF activity.gear_id = Some(matched_rule[1].gear_id)
       THEN [seen EXCEPT !.result.already_correct = @ + 1]
       ELSE IF ok
       THEN [seen EXCEPT !.result.updated = @ + 1,
                         !.updates = Append(@, [id |-> activity.id,
                                                gear_id |-> matched_rule[1].gear_id,
                                                ok |-> TRUE])]
       ELSE [seen EXCEPT !.result.errors = @ + 1,
                         !.updates = Append(@, [id |-> activity.id,
                                                gear_id |-> matched_rule[1].gear_id,
                                                ok |-> FALSE])]

\* faulty variant: the first failed update ends the loop
RECURSIVE GearLoop_stops_on_error(_, _, _, _, _)
GearLoop_stops_on_error(rules, entries, updateOk, i, acc) ==
    IF i > Len(entries) \/ acc.result.errors > 0 THEN acc
    ELSE GearLoop_stops_on_error(rules, entries, updateOk, i + 1,
                                 GearStep(rules, entries[i], updateOk[i], acc))

\* the for loop of apply_gear_rules from entry i on
RECURSIVE GearLoop(_, _, _, _, _)
GearLoop(rules, entries, updateOk, i, acc) ==
    IF i > Len(entries) THEN acc
    ELSE GearLoop(rules, entries, updateOk, i + 1,
                  GearStep(rules, entries[i], updateOk[i], acc))

\* apply_gear_rules.  listing is what get_activities does: fails = "call"
\* when the call raises, "iter" when the iterator raises after `yielded`
\* entries (the loop is outside the try, so that exception leaves
\* apply_gear_rules), "" when all entries are yielded.
apply_gear_rules(rules, listing, updateOk) ==
    IF listing.fails = "call" THEN NoPass
    ELSE IF listing.fails = "iter"
    THEN [GearLoop(rules, SubSeq(listing.entries, 1, listing.yielded), updateOk, 1, NoPass)
             EXCEPT !.raised = "Exception"]
    ELSE GearLoop(rules, listing.entries, updateOk, 1, NoPass)

(***************************************************************************)
(* The environment: the clock, the source platform's activities and what   *)
(* the platforms answer.                                                   *)
(***************************************************************************)
\* time.time() at clock tick t
Seconds(t) == t * SecondsPerTick

\* datetime.utcnow().isoformat() at tick t, shortened to <day> "T" <hour>
\* with two hours to the day
IsoFormat(t) == <<Digits[(t \div 2) + 1], "T", Digits[(t % 2) + 1]>>

\* GarminActivity.from_api_response of the source platform's records; the
\* platform writes start times as <day> " " <hour>
GarminActivities ==
    { [activity_id |-> <<"1","0","1">>, activity_type |-> <<"r","u","n">>,
       start_time |-> <<"0"," ","0">>],
      [activity_id |-> <<"1","0","2">>, activity_type |-> <<" ","G","y","m">>,
       start_time |-> <<"0"," ","0">>] }

\* what get_recent_activities can return: up to FetchLimit activities
FetchLists ==
    UNION { { f \in [1..n -> GarminActivities] :
                \A i, j \in 1..n : i # j => f[i].activity_id # f[j].activity_id }
            : n \in 0..FetchLimit }

\* blocked_activity_types of the configurations the engine is started with
BlockedConfigs == { {}, {<<"G","Y","M"," ">>} }

\* config.gear_rules of the configurations the engine is started with
GearConfigs == { parse_gear_rules(<<>>) }

\* datetime.now(timezone.utc).isoformat() at tick t: the UTC offset follows
IsoFormatUtc(t) == IsoFormat(t) \o <<"+","0","0",":","0","0">>

\* the value of a digit character
DigitValue(c) == (CHOOSE i \in 1..Len(Digits) : Digits[i] = c) - 1

\* datetime.fromisoformat of a stored cursor, as a tick
fromisoformat(text) == 2 * DigitValue(text[1]) + DigitValue(text[3])

\* the entries of the destination account the equipment pass can meet
StravaEntries ==
    { [id |-> 1, type |-> <<"R","i","d","e">>, trainer |-> TRUE,
       gear_id |-> Some(<<"g","B">>), start |-> 0],
      [id |-> 2, type |-> <<"R","i","d","e">>, trainer |-> TRUE,
       gear_id |-> Some(<<"g","A">>), start |-> 1],
      [id |-> 3, type |-> <<"R","i","d","e">>, trainer |-> FALSE,
       gear_id |-> None, start |-> 1],
      [id |-> 4, type |-> <<"R","u","n">>, trainer |-> TRUE,
       gear_id |-> None, start |-> 0],
      [id |-> 5, type |-> <<"R","i","d","e">>, trainer |-> TRUE,
       gear_id |-> None, start |-> 1] }

\* the longest listing the destination answers in the modelled deployment
MaxListed == 2

\* get_activities(after=after, limit=50): the destination lists entries that
\* started after `after` (all entries when after is None)
ListedAfter(after) ==
    LET pool == {e \in StravaEntries : after = None \/ e.start > after[1]}
    IN UNION { { l \in [1..n -> pool] : \A i, j \in 1..n : i # j => l[i] # l[j] }
               : n \in 0..MaxListed }

\* what get_activities can do with such a listing: raise, yield it all, or
\* raise from the iterator after some entries
ListingAnswers(after) ==
    {[entries |-> <<>>, fails |-> "call", yielded |-> 0]}
    \cup {[entries |-> l, fails |-> "", yielded |-> Len(l)] : l \in ListedAfter(after)}
    \cup UNION { {[entries |-> l, fails |-> "iter", yielded |-> y] : y \in 0..Len(l)}
                 : l \in ListedAfter(after) }

\* the rule strings of the deployments with equipment rules
GearRuleStrings ==
    { <<"t","r","a","i","n","e","r",":","g","A">>,
      <<"t","r","a","i","n","e","r",":","g","B",","," ","t","r","a","i","n","e","r",":","g","A">>,
      <<"r","u","n",":","g","B",",","b","a","d",",","t","r","a","i","n","e","r",":","g","A">> }

(***************************************************************************)
(* Tokens and authentication.                                              *)
(***************************************************************************)
StravaToken(access_token, refresh_token, expires_at, athlete_id) ==
    [access_token |-> access_token, refresh_token |-> refresh_token,
     expires_at |-> expires_at, athlete_id |-> athlete_id, id |-> 1]

\* faulty variant: a plain INSERT, the rows accumulate
save_strava_token_insert(table, token) == Append(table, token)

\* Database.save_strava_token: INSERT of a row with id 1 which, when a row
\* with id 1 exists, overwrites that row's values instead
save_strava_token(table, token) ==
    IF \E i \in 1..Len(table) : table[i].id = 1
    THEN [i \in 1..Len(table) |->
            IF table[i].id = 1 THEN [token EXCEPT !.id = 1] ELSE table[i]]
    ELSE Append(table, [token EXCEPT !.id = 1])

\* faulty variant: the look-ahead buffer is forgotten
is_expired_no_buffer(token, t) == token.expires_at < Seconds(t)

is_expired(token, t) == token.expires_at < Seconds(t) + BufferSeconds

\* StravaClient.exchange_code: the token the platform issues at tick t
exchange_code(t) ==
    StravaToken(t, t, Seconds(t) + TokenLifetime, Some(<<"4","2">>))

\* StravaClient.refresh_token: the refreshed token carries no athlete id
refresh_token(t) ==
    StravaToken(t, t, Seconds(t) + TokenLifetime, None)

\* faulty variant: the token is not installed on the client
ensure_valid_token_not_installed(stored, access, t, refreshOk) ==
    IF stored = None
    THEN [token |-> None, stored |-> stored, access |-> access, refreshed |-> FALSE,
          refresh_calls |-> 0]
    ELSE IF is_expired(stored[1], t)
    THEN IF refreshOk
         THEN [token |-> Some(refresh_token(t)), stored |-> save_strava_token(stored, refresh_token(t)),
               access |-> access, refreshed |-> TRUE, refresh_calls |-> 1]
         ELSE [token |-> None, stored |-> stored, access |-> access,
               refreshed |-> FALSE, refresh_calls |-> 1]
    ELSE [token |-> stored, stored |-> stored, access |-> access,
          refreshed |-> FALSE, refresh_calls |-> 0]

\* faulty variant: a failed refresh discards the stored token
ensure_valid_token_discards(stored, access, t, refreshOk) ==
    IF stored = None
    THEN [token |-> None, stored |-> stored, access |-> access, refreshed |-> FALSE,
          refresh_calls |-> 0]
    ELSE IF is_expired(stored[1], t)
    THEN IF refreshOk
         THEN [token |-> Some(refresh_token(t)),
               stored |-> save_strava_token(stored, refresh_token(t)),
               access |-> Some(refresh_token(t).access_token), refreshed |-> TRUE,
               refresh_calls |-> 1]
         ELSE [token |-> None, stored |-> None, access |-> access,
               refreshed |-> FALSE, refresh_calls |-> 1]
    ELSE [token |-> stored, stored |-> stored,
          access |-> Some(stored[1].access_token), refreshed |-> FALSE,
          refresh_calls |-> 0]

\* ensure_valid_token: the stored token, the client's access token and the
\* returned token (None when there is none or the refresh failed)
ensure_valid_token(stored, access, t, refreshOk) ==
    IF stored = None
    THEN [token |-> None, stored |-> stored, access |-> access, refreshed |-> FALSE,
          refresh_calls |-> 0]
    ELSE IF is_expired(stored[1], t)
    THEN IF refreshOk
         THEN [token |-> Some(refresh_token(t)), stored |-> save_strava_token(stored, refresh_token(t)),
               access |-> Some(refresh_token(t).access_token), refreshed |-> TRUE,
               refresh_calls |-> 1]
         ELSE [token |-> None, stored |-> stored, access |-> access,
               refreshed |-> FALSE, refresh_calls |-> 1]
    ELSE [token |-> stored, stored |-> stored,
          access |-> Some(stored[1].access_token), refreshed |-> FALSE,
          refresh_calls |-> 0]

\* GarminClient.resume_session: raises GarminAuthError without a saved
\* session or when garth rejects it
resume_session(saved, resumeOk) == saved /\ resumeOk

\* the Garmin half of _ensure_auth: verify_session (which resumes first when
\* not yet authenticated in-process), then resume_session when the probe fails
GarminEnsure(authenticated, saved, resumeOk, verifyOk) ==
    IF ~authenticated /\ ~resume_session(saved, resumeOk)
    THEN [ok |-> FALSE, authenticated |-> authenticated]
    ELSE IF verifyOk
    THEN [ok |-> TRUE, authenticated |-> TRUE]
    ELSE IF resume_session(saved, resumeOk)
    THEN [ok |-> TRUE, authenticated |-> TRUE]
    ELSE [ok |-> FALSE, authenticated |-> TRUE]

\* faulty variant: a missing or unrefreshable token is not an error
_ensure_auth_token_unchecked(authenticated, saved, stored, access, t, resumeOk, verifyOk, refreshOk) ==
    LET g == GarminEnsure(authenticated, saved, resumeOk, verifyOk)
        s == ensure_valid_token(stored, access, t, refreshOk)
    IN IF ~g.ok
       THEN [error |-> "Garmin auth failed", authenticated |-> g.authenticated,
             stored |-> stored, access |-> access, refreshed |-> FALSE,
             token_reads |-> 0, refresh_calls |-> 0]
       ELSE [error |-> "", authenticated |-> g.authenticated,
             stored |-> s.stored, access |-> s.access, refreshed |-> s.refreshed,
             token_reads |-> 1, refresh_calls |-> s.refresh_calls]

\* SyncEngine._ensure_auth: error is the AuthenticationError text, "" if none
_ensure_auth(authenticated, saved, stored, access, t, resumeOk, verifyOk, refreshOk) ==
    LET g == GarminEnsure(authenticated, saved, resumeOk, verifyOk)
        s == ensure_valid_token(stored, access, t, refreshOk)
    IN IF ~g.ok
       THEN [error |-> "Garmin auth failed", authenticated |-> g.authenticated,
             stored |-> stored, access |-> access, refreshed |-> FALSE,
             token_reads |-> 0, refresh_calls |-> 0]
       ELSE IF s.token = None
       THEN [error |-> "Strava not authenticated", authenticated |-> g.authenticated,
             stored |-> s.stored, access |-> s.access, refreshed |-> s.refreshed,
             token_reads |-> 1, refresh_calls |-> s.refresh_calls]
       ELSE [error |-> "", authenticated |-> g.authenticated,
             stored |-> s.stored, access |-> s.access, refreshed |-> s.refreshed,
             token_reads |-> 1, refresh_calls |-> s.refresh_calls]

(***************************************************************************)
(* State.                                                                  *)
(***************************************************************************)
VARIABLES
    activities,        \* store: the activities table
    config,            \* store: the config table, key -> optional value
    strava_tokens,     \* store: the single-row token table (optional row)
    sync_runs,         \* store: the sync_runs table
    garth_home,        \* whether a saved Garmin session exists on disk
    now,               \* the clock, in ticks
    engine,            \* the SyncEngine object and its clients
    pc,                \* "idle", or "loop" while run_cycle iterates
    run,               \* run_cycle's in-memory SyncRun
    fetched,           \* run_cycle's activities list
    idx,               \* index of the next activity of the loop
    results,           \* run_cycle's results list
    cycle_ist,         \* run_cycle's initial_sync_time
    ended,             \* how the last run_cycle ended: "returned" / "raised" /
                       \* "interrupted"
    last,              \* the last process_activity call, as observed
    auth_seen,         \* the last _ensure_auth call of the cycle, as observed
    gear,              \* the equipment pass of the cycle, as observed
    process,           \* the `garava run` process: "running" or "exited"
    probe,             \* a call of one of the program's pure functions
    flow               \* run_oauth_flow: the handler's class attributes, the
                       \* listeners and their helper threads, the waiting loop

vars == <<activities, config, strava_tokens, sync_runs, garth_home, now, engine,
          pc, run, fetched, idx, results, cycle_ist, ended, last, auth_seen, gear,
          process, probe, flow>>

\* everything but the probe
program == <<activities, config, strava_tokens, sync_runs, garth_home, now, engine,
             pc, run, fetched, idx, results, cycle_ist, ended, last, auth_seen, gear,
             process>>

store == <<activities, config, strava_tokens, sync_runs>>
cycle == <<pc, run, fetched, idx, results, cycle_ist, ended, last, auth_seen, gear>>

\* SyncRun() with the id the store assigned.  started_at is not modelled
\* and completed_at is NULL or set: no modelled decision reads the times.
SyncRun(id) ==
    [id |-> id, completed_at |-> None,
     activities_checked |-> 0, activities_synced |-> 0,
     activities_skipped |-> 0, activities_failed |-> 0, error |-> None]

\* SyncRun.complete
complete(r) == [r EXCEPT !.completed_at = Some("utcnow")]

\* The sync_runs table.  The engine only ever reads or writes the row of the
\* cycle in progress (UPDATE ... WHERE id = run.id), so the table is kept as
\* that row and the number of rows of earlier cycles.
RunCount(runs) == runs.archived + Len(runs.rows)

\* Database.create_sync_run: INSERT (started_at), the other columns default
create_sync_run(runs) ==
    [archived |-> RunCount(runs), rows |-> <<SyncRun(RunCount(runs) + 1)>>]

\* Database.update_sync_run: UPDATE ... WHERE id = run.id
update_sync_run(runs, r) ==
    [runs EXCEPT !.rows = [i \in DOMAIN @ |-> IF @[i].id = r.id THEN r ELSE @[i]]]

\* the stored row of the cycle in progress or last finished
LatestRun(runs) == runs.rows[Len(runs.rows)]

\* SyncEngine.__init__
SyncEngine(blocked_types, gear_rules) ==
    [filter |-> ActivityFilter(blocked_types),
     _initial_sync_time |-> None,
     _gear_rules |-> gear_rules,
     authenticated |-> FALSE,
     access_token |-> None]

\* run_cycle's local variables outside a cycle
NoRun == SyncRun(0)

NoCall ==
    [garmin_activity_id |-> <<>>, download |-> None, prior |-> "-", raised |-> "",
     action |-> "",
     activity |-> None, downloads |-> 0, uploads |-> 0,
     behaviour |-> None, upload |-> None, attempts |-> 0]

\* no _ensure_auth call yet in this cycle
NoAuth ==
    [calls |-> 0, at |-> 0, error |-> "", token_reads |-> 0, refresh_calls |-> 0,
     refreshed |-> FALSE]

\* what an _ensure_auth call at tick t did, as recorded for the properties
AuthSeen(a, t) ==
    [calls |-> 1, at |-> t, error |-> a.error, token_reads |-> a.token_reads,
     refresh_calls |-> a.refresh_calls, refreshed |-> a.refreshed]

\* no pure function has been called on its own
NoProbe == [op |-> "none"]

\* run_oauth_flow has not been called in this process: the class attributes
\* of OAuthCallbackHandler have their declared values
NoFlow ==
    [n |-> 0, pc |-> "idle", authorization_code |-> None, error |-> None,
     listeners |-> <<>>, elapsed |-> 0, closed_at |-> 0, exchange_calls |-> 0,
     result |-> None]

\* no equipment pass yet in this cycle: run_cycle's gear_result is None
NoGear ==
    [calls |-> 0, gear_result |-> None, caught |-> "", after |-> None,
     listing |-> None, updates |-> <<>>, iterated |-> <<>>, raised |-> ""]

Init ==
    /\ activities = {}
    /\ config = [k \in {"initial_sync_time", "last_gear_check_time"} |-> None]
    /\ strava_tokens = None
    /\ sync_runs = [archived |-> 0, rows |-> <<>>]
    /\ garth_home = FALSE
    /\ now = 0
    /\ engine \in {SyncEngine(b, g) : b \in BlockedConfigs, g \in GearConfigs}
    /\ pc = "idle"
    /\ run = NoRun
    /\ fetched = <<>>
    /\ idx = 1
    /\ results = <<>>
    /\ cycle_ist = None
    /\ ended = "none"
    /\ last = NoCall
    /\ auth_seen = NoAuth
    /\ gear = NoGear
    /\ process = "running"
    /\ probe = NoProbe
    /\ flow = NoFlow

(***************************************************************************)
(* `garava setup`: log in to Garmin (saving the session) and, unless a     *)
(* non-expired token is stored, run the OAuth flow and save its token.     *)
(***************************************************************************)
\* the SyncCycleResult of the last cycle is gone once its caller moves on
Forget ==
    /\ run' = NoRun
    /\ fetched' = <<>>
    /\ idx' = 1
    /\ results' = <<>>
    /\ cycle_ist' = None
    /\ ended' = "none"
    /\ last' = NoCall
    /\ auth_seen' = NoAuth
    /\ gear' = NoGear
    /\ pc' = "idle"

Setup ==
    /\ UNCHANGED <<probe, flow>>
    /\ pc = "idle"
    /\ \E garminOk, oauthOk \in BOOLEAN :
          /\ garth_home' = (garth_home \/ garminOk)
          /\ strava_tokens' =
                IF /\ garth_home \/ garminOk
                   /\ ~(strava_tokens # None /\ ~is_expired(strava_tokens[1], now))
                   /\ oauthOk
                THEN save_strava_token(strava_tokens, exchange_code(now))
                ELSE strava_tokens
    /\ Forget
    /\ UNCHANGED <<activities, config, sync_runs, now, engine, process>>

\* `garava run`: a new process builds a new engine (SyncEngine.create)
NewEngine ==
    /\ UNCHANGED <<probe, flow>>
    /\ pc = "idle"
    /\ \E b \in BlockedConfigs, g \in GearConfigs : engine' = SyncEngine(b, g)
    /\ process' = "running"
    /\ Forget
    /\ UNCHANGED <<store, garth_home, now>>

\* time passes between cycles
Tick ==
    /\ UNCHANGED <<probe, flow>>
    /\ pc = "idle"
    /\ now < MaxClock
    /\ now' = now + 1
    /\ Forget
    /\ UNCHANGED <<store, garth_home, engine, process>>

(***************************************************************************)
(* run_cycle, in three steps: the start (run record, authentication,       *)
(* boundary, fetch), one loop iteration per step, and the completion       *)
(* (gear pass, run record).  Each step includes the except clauses that    *)
(* end the cycle from it.                                                  *)
(***************************************************************************)
\* faulty variant: the boundary is set to the current time on every call
_ensure_initial_sync_time_always_now(cached, cfg, t) ==
    [value |-> IsoFormat(t), cached |-> Some(IsoFormat(t)),
     config |-> [cfg EXCEPT !["initial_sync_time"] = Some(IsoFormat(t))]]

\* what becomes of the `garava run` process when run_cycle raises: the loop
\* catches KeyboardInterrupt and shuts down; any other exception leaves
\* run() uncaught and ends the process
run_caller(raised) == "exited"

\* SyncEngine._ensure_initial_sync_time
_ensure_initial_sync_time(cached, cfg, t) ==
    IF cached # None /\ cached[1] # <<>>
    THEN [value |-> cached[1], cached |-> cached, config |-> cfg]
    ELSE IF cfg["initial_sync_time"] # None /\ cfg["initial_sync_time"][1] # <<>>
    THEN [value |-> cfg["initial_sync_time"][1],
          cached |-> cfg["initial_sync_time"], config |-> cfg]
    ELSE [value |-> IsoFormat(t), cached |-> Some(IsoFormat(t)),
          config |-> [cfg EXCEPT !["initial_sync_time"] = Some(IsoFormat(t))]]

\* faulty variant: the error text is not recorded on the run
FailRun_error_dropped(r, runs, error) ==
    update_sync_run(runs, complete(r))

\* the except clauses of run_cycle: record the error, complete, persist
FailRun(r, runs, error) ==
    update_sync_run(runs, complete([r EXCEPT !.error = Some(error)]))

\* faulty variant: an `exists` outcome is counted as skipped
CountResult_exists_counted(r, action) ==
    CASE action = "synced" -> [r EXCEPT !.activities_synced = @ + 1]
      [] action = "skipped" -> [r EXCEPT !.activities_skipped = @ + 1]
      [] action = "exists" -> [r EXCEPT !.activities_skipped = @ + 1]
      [] action = "failed" -> [r EXCEPT !.activities_failed = @ + 1]
      [] action = "duplicate" -> [r EXCEPT !.activities_synced = @ + 1]
      [] OTHER -> r

\* faulty variant: a `duplicate` outcome is counted as a failure
CountResult_duplicate_failed(r, action) ==
    CASE action = "synced" -> [r EXCEPT !.activities_synced = @ + 1]
      [] action = "skipped" -> [r EXCEPT !.activities_skipped = @ + 1]
      [] action = "failed" -> [r EXCEPT !.activities_failed = @ + 1]
      [] action = "duplicate" -> [r EXCEPT !.activities_failed = @ + 1]
      [] OTHER -> r

\* the counters update of the loop body
CountResult(r, action) ==
    CASE action = "synced" -> [r EXCEPT !.activities_synced = @ + 1]
      [] action = "skipped" -> [r EXCEPT !.activities_skipped = @ + 1]
      [] action = "failed" -> [r EXCEPT !.activities_failed = @ + 1]
      [] action = "duplicate" -> [r EXCEPT !.activities_synced = @ + 1]
      [] OTHER -> r

\* the status of the row recorded for an activity id, "none" without a row
PriorStatus(rows, gid) ==
    IF get_activity(rows, gid) = None THEN "none" ELSE get_activity(rows, gid)[1].status

\* what a process_activity call did, as recorded for the properties
Observe(rows, ga, up, dl, r, attempts) ==
    [garmin_activity_id |-> ga.activity_id,
     download |-> IF r.downloads > 0 THEN Some(download_fit_file(dl, ga.activity_id))
                  ELSE None,
     prior |-> PriorStatus(rows, ga.activity_id),
     raised |-> r.raised, action |-> r.action,
     activity |-> Some(r.activity),
     downloads |-> r.downloads, uploads |-> r.uploads,
     behaviour |-> IF r.uploads > 0 THEN Some(up) ELSE None,
     upload |-> r.upload, attempts |-> attempts]

\* what the token refresh endpoint can answer when ensure_valid_token calls it
RefreshAnswers(stored, t) ==
    IF stored # None /\ is_expired(stored[1], t) THEN BOOLEAN ELSE {TRUE}

\* what get_recent_activities does: it raises GarthException (None) or
\* returns a list
FetchAnswers == {None} \cup {Some(l) : l \in FetchLists}

StartCycle ==
    /\ UNCHANGED <<probe, flow>>
    /\ pc = "idle"
    /\ process = "running"
    /\ RunCount(sync_runs) < MaxCycles
    /\ \E resumeOk, verifyOk \in BOOLEAN,
          refreshOk \in RefreshAnswers(strava_tokens, now) :
       \E runs \in {create_sync_run(sync_runs)},
          a \in {_ensure_auth(engine.authenticated, garth_home, strava_tokens,
                              engine.access_token, now, resumeOk, verifyOk, refreshOk)},
          b \in {_ensure_initial_sync_time(engine._initial_sync_time, config, now)} :
          /\ strava_tokens' = a.stored
          /\ auth_seen' = AuthSeen(a, now)
          /\ gear' = NoGear
          /\ results' = <<>>
          /\ idx' = 1
          /\ last' = NoCall
          /\ IF a.error # ""
             THEN \* except AuthenticationError: record, persist, re-raise
                  /\ engine' = [engine EXCEPT !.authenticated = a.authenticated,
                                              !.access_token = a.access]
                  /\ sync_runs' = FailRun(LatestRun(runs), runs, a.error)
                  /\ run' = LatestRun(sync_runs')
                  /\ ended' = "raised"
                  /\ process' = run_caller("AuthenticationError")
                  /\ pc' = "idle"
                  /\ fetched' = <<>>
                  /\ cycle_ist' = None
                  /\ UNCHANGED config
             ELSE /\ engine' = [engine EXCEPT !.authenticated = a.authenticated,
                                              !.access_token = a.access,
                                              !._initial_sync_time = b.cached]
                  /\ config' = b.config
                  /\ cycle_ist' = Some(b.value)
                  /\ process' = process
                  /\ \E answer \in FetchAnswers :
                        IF answer = None
                        THEN \* get_recent_activities raised: except Exception
                             /\ sync_runs' = FailRun(LatestRun(runs), runs,
                                                     "GarthException")
                             /\ run' = LatestRun(sync_runs')
                             /\ ended' = "returned"
                             /\ pc' = "idle"
                             /\ fetched' = <<>>
                        ELSE /\ sync_runs' = runs
                             /\ run' = [LatestRun(runs) EXCEPT
                                           !.activities_checked = Len(answer[1])]
                             /\ ended' = "none"
                             /\ pc' = "loop"
                             /\ fetched' = answer[1]
    /\ UNCHANGED <<activities, garth_home, now>>

\* SyncEngine._process_with_auth_recovery: the first attempt, and when it
\* raised GarthException one re-authentication and one retry.  result is
\* None when the recovery failed.
_process_with_auth_recovery(rows, ga, eng, saved, stored, ist, t, dl, up, resumeOk, verifyOk, refreshOk, dl2, up2) ==
    LET a == _ensure_auth(eng.authenticated, saved, stored, eng.access_token, t,
                          resumeOk, verifyOk, refreshOk)
        same == [authenticated |-> eng.authenticated, access |-> eng.access_token,
                 stored |-> stored]
        Retry(second) ==
            IF second.raised = "GarthException"
            THEN [result |-> None, raised |-> "", attempts |-> 2, auth |-> a,
                  behaviour |-> up2,
                  download |-> dl2]
            ELSE [result |-> Some(second), raised |-> second.raised, attempts |-> 2,
                  auth |-> a, behaviour |-> up2,
                  download |-> dl2]
        Attempt(first) ==
            IF first.raised # "GarthException"
            THEN [result |-> Some(first), raised |-> first.raised, attempts |-> 1,
                  auth |-> same, behaviour |-> up,
                  download |-> dl]
            ELSE IF a.error # ""
            THEN [result |-> None, raised |-> "", attempts |-> 1, auth |-> a,
                  behaviour |-> up,
                  download |-> dl]
            ELSE CHOOSE p \in
                    { Retry(second) : second \in
                        {process_activity(first.rows, ga, eng.filter, ist, dl2, up2)} }
                    : TRUE
    IN CHOOSE p \in
          { Attempt(first) : first \in
              {process_activity(rows, ga, eng.filter, ist, dl, up)} } : TRUE

\* the loop body after _process_with_auth_recovery returned p
LoopBody(ga, p) ==
    /\ engine' = [engine EXCEPT !.authenticated = p.auth.authenticated,
                                !.access_token = p.auth.access]
    /\ strava_tokens' = p.auth.stored
    /\ auth_seen' = IF p.result = None \/ p.attempts = 2
                    THEN AuthSeen(p.auth, now) ELSE auth_seen
    /\ IF p.result = None
       THEN \* result is None: raise AuthenticationError, recorded
            /\ sync_runs' = FailRun(run, sync_runs,
                                    "Garmin session expired mid-cycle")
            /\ run' = LatestRun(sync_runs')
            /\ ended' = "raised"
            /\ process' = run_caller("AuthenticationError")
            /\ pc' = "idle"
            /\ last' = [NoCall EXCEPT !.garmin_activity_id = ga.activity_id,
                                      !.raised = "AuthenticationError",
                                      !.attempts = p.attempts]
            /\ UNCHANGED <<activities, results, idx>>
       ELSE \E r \in {p.result[1]} :
               /\ process' = process
               /\ activities' = r.rows
               /\ last' = Observe(activities, ga, p.behaviour, p.download, r, p.attempts)
               /\ IF r.raised # ""
                  THEN \* process_activity raised: except Exception
                       /\ sync_runs' = FailRun(run, sync_runs, r.raised)
                       /\ run' = LatestRun(sync_runs')
                       /\ ended' = "returned"
                       /\ pc' = "idle"
                       /\ UNCHANGED <<results, idx>>
                  ELSE /\ results' = Append(results,
                               [garmin_activity_id |-> ga.activity_id,
                                action |-> r.action])
                       /\ run' = CountResult(run, r.action)
                       /\ idx' = idx + 1
                       /\ UNCHANGED <<sync_runs, ended, pc>>

\* faulty variant: the list is walked from its end
LoopActivity_reversed(list, i) == list[Len(list) + 1 - i]

\* `for garmin_activity in activities`: the activity of iteration i
LoopActivity(list, i) == list[i]

ProcessNext ==
    /\ UNCHANGED <<probe, flow>>
    /\ pc = "loop"
    /\ idx <= Len(fetched)
    /\ \E dl \in DownloadBehaviours, up \in UploadBehaviours :
       \E first \in {process_activity(activities, LoopActivity(fetched, idx), engine.filter,
                                      cycle_ist, dl, up)} :
          IF first.raised # "GarthException"
          THEN \E p \in {_process_with_auth_recovery(activities, LoopActivity(fetched, idx), engine,
                            garth_home, strava_tokens, cycle_ist, now, dl, up,
                            TRUE, TRUE, TRUE, dl, up)} :
                  LoopBody(LoopActivity(fetched, idx), p)
          ELSE \E dl2 \in DownloadBehaviours, up2 \in UploadBehaviours,
                  resumeOk, verifyOk, refreshOk \in BOOLEAN :
               \E p \in {_process_with_auth_recovery(activities, LoopActivity(fetched, idx), engine,
                            garth_home, strava_tokens, cycle_ist, now, dl, up,
                            resumeOk, verifyOk, refreshOk, dl2, up2)} :
                  LoopBody(LoopActivity(fetched, idx), p)
    /\ UNCHANGED <<config, garth_home, now, fetched, cycle_ist, gear>>

\* the `after` argument _apply_gear_rules computes from the stored cursor
GearAfter(cfg) ==
    IF cfg["last_gear_check_time"] # None /\ cfg["last_gear_check_time"][1] # <<>>
    THEN Some(fromisoformat(cfg["last_gear_check_time"][1]))
    ELSE None

\* what the environment does to an equipment pass: a store fault ("" for
\* none, or the failing call), the listing and the answers to the updates
GearAnswers(cfg, rules) ==
    IF rules = <<>>
    THEN {[fault |-> "", listing |-> [entries |-> <<>>, fails |-> "", yielded |-> 0],
           updateOk |-> [i \in 1..MaxListed |-> TRUE]]}
    ELSE {[fault |-> "get_config", listing |-> [entries |-> <<>>, fails |-> "", yielded |-> 0],
           updateOk |-> [i \in 1..MaxListed |-> TRUE]]}
         \cup {[fault |-> f, listing |-> l, updateOk |-> u] :
                 f \in {"", "set_config"}, l \in ListingAnswers(GearAfter(cfg)),
                 u \in [1..MaxListed -> BOOLEAN]}

\* what _apply_gear_rules hands back: the config table, its return value,
\* the exception that left it (raised, "" for none) and, for the
\* properties, what the pass did and which failure was caught
GearOutcome(cfg, gear_result, raised, caught, after, listing, pass) ==
    [config |-> cfg, gear_result |-> gear_result, raised |-> raised,
     seen |-> [calls |-> 1, gear_result |-> gear_result, caught |-> caught,
               after |-> after, listing |-> listing, updates |-> pass.updates,
               iterated |-> pass.iterated, raised |-> raised]]

\* faulty variant: a failure inside the pass is not caught
_apply_gear_rules_uncaught(cfg, rules, t, env) ==
    IF rules = <<>> THEN [config |-> cfg, gear_result |-> None, raised |-> "", seen |-> NoGear]
    ELSE IF env.fault = "get_config"
    THEN GearOutcome(cfg, None, "Exception", "get_config", None, None, NoPass)
    ELSE CHOOSE g \in
        { IF pass.raised # ""
          THEN GearOutcome(cfg, None, "Exception", "listing", GearAfter(cfg),
                           Some(env.listing), pass)
          ELSE IF env.fault = "set_config"
          THEN GearOutcome(cfg, None, "Exception", "set_config", GearAfter(cfg),
                           Some(env.listing), pass)
          ELSE GearOutcome([cfg EXCEPT !["last_gear_check_time"] = Some(IsoFormatUtc(t))],
                           Some(pass.result), "", "", GearAfter(cfg),
                           Some(env.listing), pass)
          : pass \in {apply_gear_rules(rules, env.listing, env.updateOk)} } : TRUE

\* SyncEngine._apply_gear_rules: without rules nothing happens; otherwise the
\* cursor is read, the pass runs and the cursor is set; every exception on
\* the way is caught and None returned
_apply_gear_rules(cfg, rules, t, env) ==
    IF rules = <<>> THEN [config |-> cfg, gear_result |-> None, raised |-> "", seen |-> NoGear]
    ELSE IF env.fault = "get_config"
    THEN GearOutcome(cfg, None, "", "get_config", None, None, NoPass)
    ELSE CHOOSE g \in
        { IF pass.raised # ""
          THEN GearOutcome(cfg, None, "", "listing", GearAfter(cfg),
                           Some(env.listing), pass)
          ELSE IF env.fault = "set_config"
          THEN GearOutcome(cfg, None, "", "set_config", GearAfter(cfg),
                           Some(env.listing), pass)
          ELSE GearOutcome([cfg EXCEPT !["last_gear_check_time"] = Some(IsoFormatUtc(t))],
                           Some(pass.result), "", "", GearAfter(cfg),
                           Some(env.listing), pass)
          : pass \in {apply_gear_rules(rules, env.listing, env.updateOk)} } : TRUE

\* step 5 and the completion of run_cycle; an exception leaving
\* _apply_gear_rules would reach `except Exception`
CompleteCycle ==
    /\ UNCHANGED <<probe, flow>>
    /\ pc = "loop"
    /\ idx > Len(fetched)
    /\ \E env \in GearAnswers(config, engine._gear_rules) :
       \E g \in {_apply_gear_rules(config, engine._gear_rules, now, env)} :
          /\ config' = g.config
          /\ gear' = g.seen
          /\ run' = IF g.raised # ""
                    THEN complete([run EXCEPT !.error = Some(g.raised)])
                    ELSE complete(run)
          /\ sync_runs' = update_sync_run(sync_runs, run')
    /\ ended' = "returned"
    /\ pc' = "idle"
    /\ last' = NoCall
    /\ UNCHANGED <<activities, strava_tokens, garth_home, now, engine,
                   fetched, idx, results, cycle_ist, auth_seen, process>>

\* time passes while a cycle is in progress (downloads, upload polling)
Elapse ==
    /\ UNCHANGED <<probe, flow>>
    /\ pc = "loop"
    /\ now < MaxClock
    /\ now' = now + 1
    /\ UNCHANGED <<store, garth_home, engine, cycle, process>>

\* Ctrl+C while run_cycle iterates: KeyboardInterrupt is not an Exception, so
\* neither except clause of run_cycle runs; it propagates to `garava run`,
\* which shuts down.  The engine left is that of the next `garava run` with
\* the same configuration.
Interrupt ==
    /\ UNCHANGED <<probe, flow>>
    /\ pc = "loop"
    /\ pc' = "idle"
    /\ ended' = "interrupted"
    /\ process' = run_caller("KeyboardInterrupt")
    /\ engine' = [engine EXCEPT !.authenticated = FALSE, !.access_token = None,
                                !._initial_sync_time = None]
    /\ UNCHANGED <<store, garth_home, now, run, fetched, idx, results, cycle_ist,
                   last, auth_seen, gear>>

Next ==
    \/ Setup
    \/ NewEngine
    \/ Tick
    \/ StartCycle
    \/ ProcessNext
    \/ Elapse
    \/ Interrupt
    \/ CompleteCycle

Spec == Init /\ [][Next]_vars

(***************************************************************************)
(* The pure functions called on their own, on inputs drawn from bounded    *)
(* sets; probe holds the inputs and the result of the latest call.         *)
(***************************************************************************)
\* the longest classification text tried
MaxTypeLen == 3

TextsOver(alphabet, n) == UNION { [1..k -> alphabet] : k \in 0..n }

\* classifications and block-sets the filter is tried on
ProbeTypes == TextsOver({"a", "b", "B", " "}, MaxTypeLen)
ProbeBlockSets == SUBSET { <<"A", "b", " ">>, <<"b">>, <<" ">> }

FilterProbe ==
    /\ probe.op = "none"
    /\ \E blocked_types \in ProbeBlockSets, activity_type \in ProbeTypes :
          probe' = [op |-> "filter", blocked_types |-> blocked_types,
                    activity_type |-> activity_type,
                    should_sync |-> should_sync(ActivityFilter(blocked_types),
                                                activity_type),
                    reason |-> get_block_reason(ActivityFilter(blocked_types),
                                                activity_type)]
    /\ UNCHANGED <<program, flow>>

\* the most members an archive tried has
MaxMembers == 3

\* members and archives the extraction is tried on
ProbeMembers ==
    { [name |-> n, data |-> d] :
        n \in { <<"a",".","f","i","t">>, <<"b",".","F","I","T">>,
                <<"a",".","t","x","t">>, <<"f","i","t">> },
        d \in {"X", "Y"} }
ProbeArchives ==
    { Archive(v, e) : v \in BOOLEAN,
                      e \in UNION { [1..k -> ProbeMembers] : k \in 0..MaxMembers } }

ExtractProbe ==
    /\ probe.op = "none"
    /\ \E zip_bytes \in ProbeArchives :
          probe' = [op |-> "extract", zip_bytes |-> zip_bytes,
                    result |-> extract_fit_from_zip(zip_bytes)]
    /\ UNCHANGED <<program, flow>>

\* the most pieces a provider error text tried is made of
MaxTokens == 3

\* pieces of provider error texts, and the texts the id recovery is tried on
ProbeTokens ==
    { <<"a","c","t","i","v","i","t","y">>, <<"A","c","t","i","v","i","t","y",":"," ","7","7">>,
      <<"i","d",":"," ","5">>, <<"I","D">>, <<" ">>, <<":">>, <<"4","2">>,
      <<"1","2","3","4","5","6","7","8","9","0">>, <<"x">>,
      <<"D","u","p","l","i","c","a","t","e"," ">> }

RECURSIVE Concat(_)
Concat(pieces) == IF pieces = <<>> THEN <<>> ELSE Head(pieces) \o Concat(Tail(pieces))

ProbeMessages == { Concat(ps) : ps \in UNION { [1..k -> ProbeTokens] : k \in 0..MaxTokens } }

ParseProbe ==
    /\ probe.op = "none"
    /\ \E error_message \in ProbeMessages :
          probe' = [op |-> "parse", error_message |-> error_message,
                    duplicate_id |-> _parse_duplicate_id(error_message),
                    upload |-> upload_fit_file([kind |-> "upload_failed", id |-> <<>>,
                                                msg |-> error_message])]
    /\ UNCHANGED <<program, flow>>

\* datetime values as [day, hour, minute, second, microsecond]; their
\* position on the time line, in whole seconds
Secs(dt) == ((dt.day * 24 + dt.hour) * 60 + dt.minute) * 60 + dt.second

\* (a - b).total_seconds(), counted in microseconds
Elapsed(a, b) == (Secs(a) - Secs(b)) * 1000000 + a.microsecond - b.microsecond

\* dt + timedelta(hours=1)
PlusHour(dt) ==
    IF dt.hour = 23 THEN [dt EXCEPT !.day = dt.day + 1, !.hour = 0]
    ELSE [dt EXCEPT !.hour = dt.hour + 1]

\* max(a, b)
Max(a, b) == IF a >= b THEN a ELSE b

\* faulty variant: the current quarter-hour mark is taken
_seconds_until_next_quarter_hour_current(dt) ==
    LET next_time == [dt EXCEPT !.minute = (dt.minute \div 15) * 15,
                                !.second = 0, !.microsecond = 0]
    IN [seconds |-> Max(Elapsed(next_time, dt), 1000000),
        next_time |-> next_time]

\* _seconds_until_next_quarter_hour(now); seconds is counted in microseconds
_seconds_until_next_quarter_hour(dt) ==
    LET next_quarter == (dt.minute \div 15 + 1) * 15
        next_time ==
            IF next_quarter >= 60
            THEN PlusHour([dt EXCEPT !.minute = 0, !.second = 0, !.microsecond = 0])
            ELSE [dt EXCEPT !.minute = next_quarter, !.second = 0, !.microsecond = 0]
    IN [seconds |-> Max(Elapsed(next_time, dt), 1000000),
        next_time |-> next_time]

\* the latest day of the wall-clock times tried
MaxDay == 1

\* wall-clock times the scheduler is tried on
ProbeTimes ==
    { [day |-> d, hour |-> h, minute |-> m, second |-> sec, microsecond |-> us] :
        d \in 0..MaxDay, h \in {0, 23}, m \in 0..59, sec \in {0, 59},
        us \in {0, 1, 500000, 999999} }

QuarterProbe ==
    /\ probe.op = "none"
    /\ \E dt \in ProbeTimes :
       \E r \in {_seconds_until_next_quarter_hour(dt)} :
          probe' = [op |-> "quarter", now |-> dt, seconds |-> r.seconds,
                    next_time |-> r.next_time]
    /\ UNCHANGED <<program, flow>>

FunctionNext ==
    \/ FilterProbe
    \/ ExtractProbe
    \/ ParseProbe
    \/ QuarterProbe

FunctionSpec == Init /\ [][FunctionNext]_vars

(***************************************************************************)
(* run_oauth_flow.  Time is counted in polling periods (time.sleep(0.5))   *)
(* since start_time.  The helper thread runs server.handle_request: it     *)
(* accepts one connection and runs the handler on it; the handler writes   *)
(* the class attributes of OAuthCallbackHandler, which the flow reads      *)
(* after its waiting loop.                                                 *)
(***************************************************************************)
\* the wait timeout, in polling periods
FlowTimeout == 2

\* the longest code exchange, in polling periods
MaxExchange == 2

\* the most calls of run_oauth_flow in one process
MaxFlows == 2

AuthResult(success, token, error) ==
    [success |-> success, token |-> token, error |-> error]

\* the query parameters of an inbound request, as parse_qs gives them
OAuthRequests ==
    { [code |-> c, error |-> e, error_description |-> d] :
        c \in {None, Some("c1"), Some("c2")},
        e \in {None, Some("access_denied")},
        d \in {None, Some("denied by user")} }

\* the class attributes after the handler has run on the request
do_GET(attrs, request) ==
    IF request.code # None
    THEN [attrs EXCEPT !.authorization_code = request.code]
    ELSE IF request.error # None
         THEN [attrs EXCEPT !.error = IF request.error_description # None
                                      THEN request.error_description
                                      ELSE request.error]
         ELSE attrs

\* HTTPServer(...) and Thread(target=server.handle_request).start()
Listener ==
    [server |-> "open", server_thread |-> "accepting", request |-> None,
     handled |-> 0]

is_alive(listener) == listener.server_thread # "dead"

\* faulty variant: the loop waits for the thread only
Waiting_no_timeout(listener, elapsed) == is_alive(listener)

\* the condition of the waiting loop
Waiting(listener, elapsed) == is_alive(listener) /\ elapsed < FlowTimeout

\* the flow starts: attributes reset, listener bound, thread started, browser
\* opened, start_time taken
StartFlow ==
    /\ flow.pc \in {"idle", "returned"}
    /\ flow.n < MaxFlows
    /\ flow' = [flow EXCEPT !.n = flow.n + 1, !.pc = "waiting",
                            !.authorization_code = None, !.error = None,
                            !.listeners = Append(flow.listeners, Listener),
                            !.elapsed = 0, !.closed_at = 0,
                            !.exchange_calls = 0, !.result = None]
    /\ UNCHANGED <<program, probe>>

\* a helper thread accepts a connection to its open listener
Accept ==
    /\ \E k \in 1..Len(flow.listeners), request \in OAuthRequests :
          /\ flow.listeners[k].server_thread = "accepting"
          /\ flow.listeners[k].server = "open"
          /\ flow' = [flow EXCEPT !.listeners[k].server_thread = "handling",
                                  !.listeners[k].request = Some(request)]
    /\ UNCHANGED <<program, probe>>

\* a helper thread woken on a closed listener: accept raises OSError, which
\* handle_request swallows
AcceptClosed ==
    /\ \E k \in 1..Len(flow.listeners) :
          /\ flow.listeners[k].server_thread = "accepting"
          /\ flow.listeners[k].server = "closed"
          /\ flow' = [flow EXCEPT !.listeners[k].server_thread = "dead"]
    /\ UNCHANGED <<program, probe>>

\* a helper thread runs the handler on the accepted request and ends
HandleRequest ==
    /\ \E k \in 1..Len(flow.listeners) :
          /\ flow.listeners[k].server_thread = "handling"
          /\ \E attrs \in {do_GET(flow, flow.listeners[k].request[1])} :
                flow' = [attrs EXCEPT !.listeners[k].server_thread = "dead",
                                      !.listeners[k].handled = @ + 1]
    /\ UNCHANGED <<program, probe>>

\* one iteration of the waiting loop (followed for a bounded number of
\* iterations)
Wait ==
    /\ flow.pc = "waiting"
    /\ Waiting(flow.listeners[flow.n], flow.elapsed)
    /\ flow.elapsed < FlowTimeout + MaxExchange + 2
    /\ flow' = [flow EXCEPT !.elapsed = @ + 1]
    /\ UNCHANGED <<program, probe>>

\* the waiting loop ends: server.server_close()
ServerClose ==
    /\ flow.pc = "waiting"
    /\ ~Waiting(flow.listeners[flow.n], flow.elapsed)
    /\ flow' = [flow EXCEPT !.pc = "closed", !.closed_at = flow.elapsed,
                            !.listeners[flow.n].server = "closed"]
    /\ UNCHANGED <<program, probe>>

\* the result: the captured error, or the time-out, or the code exchanged
Return ==
    /\ flow.pc = "closed"
    /\ IF flow.error # None
       THEN flow' = [flow EXCEPT !.pc = "returned",
                                 !.result = Some(AuthResult(FALSE, None, flow.error))]
       ELSE IF flow.authorization_code = None
            THEN flow' = [flow EXCEPT !.pc = "returned",
                                      !.result = Some(AuthResult(FALSE, None,
                                                   Some("Authorization timed out")))]
            ELSE \E ok \in BOOLEAN, d \in 0..MaxExchange :
                    flow' = [flow EXCEPT
                               !.pc = "returned",
                               !.exchange_calls = @ + 1,
                               !.elapsed = @ + d,
                               !.result =
                                  IF ok
                                  THEN Some(AuthResult(TRUE, Some(exchange_code(now)), None))
                                  ELSE Some(AuthResult(FALSE, None,
                                                       Some("exchange failed")))]
    /\ UNCHANGED <<program, probe>>

OAuthNext ==
    \/ StartFlow
    \/ Accept
    \/ AcceptClosed
    \/ HandleRequest
    \/ Wait
    \/ ServerClose
    \/ Return

OAuthSpec == Init /\ [][OAuthNext]_vars

(***************************************************************************)
(* The deployment with equipment rules: `garava setup` has succeeded, an   *)
(* earlier `garava run` has completed one cycle that found no activity     *)
(* (with or without an equipment pass), and `garava run` has started an    *)
(* engine whose configuration has a rule string.                           *)
(***************************************************************************)
GearInit ==
    /\ activities = {}
    /\ \E cursor \in {None, Some(IsoFormatUtc(0))} :
          config = [k \in {"initial_sync_time", "last_gear_check_time"} |->
                      IF k = "initial_sync_time" THEN Some(IsoFormat(0)) ELSE cursor]
    /\ strava_tokens = Some(exchange_code(0))
    /\ sync_runs = [archived |-> 0, rows |-> <<complete(SyncRun(1))>>]
    /\ garth_home = TRUE
    /\ now = 0
    /\ engine \in {SyncEngine({}, parse_gear_rules(g)) : g \in GearRuleStrings}
    /\ pc = "idle"
    /\ run = NoRun
    /\ fetched = <<>>
    /\ idx = 1
    /\ results = <<>>
    /\ cycle_ist = None
    /\ ended = "none"
    /\ last = NoCall
    /\ auth_seen = NoAuth
    /\ gear = NoGear
    /\ process = "running"
    /\ probe = NoProbe
    /\ flow = NoFlow

GearNext ==
    \/ Tick
    \/ StartCycle
    \/ ProcessNext
    \/ CompleteCycle

GearSpec == GearInit /\ [][GearNext]_vars

(***************************************************************************)
(* Properties.  `last` is the process_activity call of the latest loop     *)
(* iteration; a step taken while pc = "loop" and idx <= Len(fetched) that  *)
(* moves to the next activity or ends the cycle through an except clause   *)
(* is one loop iteration (ProcessNext).                                    *)
(***************************************************************************)
\* the step processes fetched[idx]
AtCall ==
    /\ pc = "loop"
    /\ idx <= Len(fetched)
    /\ idx' = idx + 1 \/ ended' \in {"returned", "raised"}

\* the persisted row of the cycle that just ended
Persisted == LatestRun(sync_runs)

\* how many results of the cycle have one of the given actions
CountOf(actions) == Cardinality({i \in 1..Len(results) : results[i].action \in actions})

\* the rows recorded for a source activity id
RowsOf(gid) == {r \in activities : r.garmin_activity_id = gid}

\* C1: for an activity id that already has a SYNCED, SKIPPED or DUPLICATE
\* row, process_activity returns `exists` with the existing row, makes no
\* download and no upload call, and leaves the activities table unchanged.
C1_ExistsIsFrame ==
    [][ (AtCall /\ PriorStatus(activities, fetched[idx].activity_id)
                      \in {SYNCED, SKIPPED, DUPLICATE})
        => /\ activities' = activities
           /\ last'.raised = ""
           /\ last'.action = "exists"
           /\ last'.activity = get_activity(activities, fetched[idx].activity_id)
           /\ last'.downloads = 0
           /\ last'.uploads = 0 ]_vars

C1_Witness ==
    /\ last.action = "exists"
    /\ last.prior \in {SKIPPED, DUPLICATE}
    /\ last.activity # None
    /\ last.activity[1] \in activities

\* C2: when the only row of an activity id is FAILED, re-processing it is
\* not short-circuited and completes with one of skipped / failed / synced /
\* duplicate, recorded in the store.
C2_FailedIsRetried ==
    last.prior = FAILED
    => /\ last.raised = ""
       /\ last.action \in {"skipped", "failed", "synced", "duplicate"}
       /\ \E r \in RowsOf(last.garmin_activity_id) : r.status = last.action

\* C3: an activity recorded FAILED earlier whose download and upload succeed
\* (or whose upload is reported as a duplicate) in a later cycle ends that
\* cycle with a SYNCED (respectively DUPLICATE) row.
C3_RetryConverges ==
    (last.prior = FAILED /\ last.upload # None /\ last.upload[1].success)
    => \E r \in RowsOf(last.garmin_activity_id) :
          r.status = IF last.upload[1].is_duplicate THEN DUPLICATE ELSE SYNCED

\* C4: a download, extraction, upload or upload-timeout failure of one
\* activity is recorded as FAILED for it, the loop goes on, and the cycle
\* neither aborts nor records a run-level error.
C4_FailureIsLocal ==
    (last.downloads = 1 /\ (last.upload = None \/ ~last.upload[1].success))
    => /\ last.action = "failed"
       /\ pc = "loop"
       /\ ended = "none"
       /\ run.error = None

\* C5 as stated: at the end of every cycle the persisted run record has
\* checked = synced + skipped + failed (here for cycles that end without a
\* run-level error).
C5_CheckedIsSum ==
    (ended = "returned" /\ Persisted.error = None)
    => Persisted.activities_checked =
          Persisted.activities_synced + Persisted.activities_skipped
             + Persisted.activities_failed

\* C5 amended: at the end of every cycle the persisted run record has
\* checked = the number of activities fetched (`exists` outcomes included)
\* and synced + skipped + failed = the number of processed activities whose
\* outcome is not `exists`, which is at most checked.
C5_CheckedIsFetched ==
    ended \in {"returned", "raised"}
    => /\ Persisted = run
       /\ Persisted.activities_checked = Len(fetched)
       /\ Persisted.activities_synced + Persisted.activities_skipped
             + Persisted.activities_failed
          = CountOf({"synced", "duplicate", "skipped", "failed"})
       /\ CountOf({"synced", "duplicate", "skipped", "failed"})
             + CountOf({"exists"}) = Len(results)
       /\ Len(results) <= Persisted.activities_checked

C5_Witness ==
    /\ ended = "returned"
    /\ Persisted.error = None
    /\ CountOf({"exists"}) = 1
    /\ Persisted.activities_checked = 2
    /\ Persisted.activities_synced + Persisted.activities_skipped
          + Persisted.activities_failed = 1

\* C6: when the activity loop runs to the end, synced = number of outcomes
\* synced or duplicate, skipped = number skipped, failed = number failed,
\* all counters are non-negative; and the first cycle on a fresh store with
\* one fetched activity of a blocked classification leaves exactly one
\* SKIPPED row and counters checked=1, skipped=1, synced=0, failed=0.
C6_CountersPerOutcome ==
    (ended = "returned" /\ Persisted.error = None)
    => /\ Persisted.activities_synced = CountOf({"synced", "duplicate"})
       /\ Persisted.activities_skipped = CountOf({"skipped"})
       /\ Persisted.activities_failed = CountOf({"failed"})
       /\ Persisted.activities_checked >= 0
       /\ Persisted.activities_synced >= 0
       /\ Persisted.activities_skipped >= 0
       /\ Persisted.activities_failed >= 0
       /\ Persisted.completed_at # None
       /\ (Persisted.id = 1 /\ Len(fetched) = 1
              /\ ~should_sync(engine.filter, fetched[1].activity_type))
          => /\ Cardinality(activities) = 1
             /\ \A r \in activities :
                   /\ r.garmin_activity_id = fetched[1].activity_id
                   /\ r.status = SKIPPED
                   /\ r.skip_reason =
                         Some(Fmt("blocked_type:", Lower(fetched[1].activity_type)))
             /\ Persisted.activities_checked = 1
             /\ Persisted.activities_skipped = 1
             /\ Persisted.activities_synced = 0
             /\ Persisted.activities_failed = 0

C6_Witness ==
    /\ ended = "returned"
    /\ Persisted.error = None
    /\ Persisted.id = 1
    /\ Len(fetched) = 1
    /\ ~should_sync(engine.filter, fetched[1].activity_type)
    /\ Persisted.activities_skipped = 1
    /\ \E r \in activities : r.status = SKIPPED

\* C7: the first cycle that passes authentication with no stored boundary
\* sets config key initial_sync_time to the current time; once written the
\* stored value never changes, and every cycle uses exactly the stored value.
C7_BoundaryWriteOnce ==
    [][ /\ config["initial_sync_time"] # None
           => config'["initial_sync_time"] = config["initial_sync_time"]
        /\ (pc = "idle" /\ cycle_ist' # None)
           => /\ config'["initial_sync_time"] = cycle_ist'
              /\ config["initial_sync_time"] = None
                 => cycle_ist' = Some(IsoFormat(now))
        /\ pc' = "loop" => config'["initial_sync_time"] = cycle_ist' ]_vars

C7_Witness ==
    /\ pc = "loop"
    /\ now = 1
    /\ Persisted.id = 2
    /\ cycle_ist = Some(IsoFormat(0))
    /\ config["initial_sync_time"] = Some(IsoFormat(0))

\* the activity of the latest call started before the cycle's boundary, both
\* with ' ' replaced by 'T'
LastBeforeBoundary ==
    /\ last.activity # None
    /\ cycle_ist # None
    /\ LexLess(ReplaceChar(last.activity[1].garmin_start_time, " ", "T"),
               ReplaceChar(cycle_ist[1], " ", "T"))

\* C8 as stated: an activity that starts before the boundary is skipped with
\* reason before_initial_sync, regardless of its classification.
C8_AlwaysBeforeInitialSync ==
    LastBeforeBoundary
    => /\ last.action = "skipped"
       /\ last.activity[1].skip_reason = Some(Fmt("before_initial_sync", <<>>))

\* C8 amended: an activity that has no row yet and starts before the
\* boundary is skipped without download or upload; the recorded reason is
\* before_initial_sync when its classification is not blocked and the block
\* reason when it is.
C8_SkippedBeforeBoundary ==
    (LastBeforeBoundary /\ last.prior = "none")
    => /\ last.raised = ""
       /\ last.action = "skipped"
       /\ last.downloads = 0
       /\ last.uploads = 0
       /\ last.activity[1].status = SKIPPED
       /\ last.activity[1] \in activities
       /\ last.activity[1].skip_reason =
             IF should_sync(engine.filter, last.activity[1].activity_type)
             THEN Some(Fmt("before_initial_sync", <<>>))
             ELSE Some(Fmt("blocked_type:", Lower(last.activity[1].activity_type)))

C8_Witness ==
    /\ LastBeforeBoundary
    /\ last.prior = "none"
    /\ should_sync(engine.filter, last.activity[1].activity_type)
    /\ last.activity[1].skip_reason = Some(Fmt("before_initial_sync", <<>>))

\* C9: an activity with no non-FAILED row whose classification is blocked
\* gets exactly one SKIPPED row with the block reason, outcome `skipped`,
\* and no download and no upload call.
C9_BlockedIsSkipped ==
    (/\ last.prior \in {"none", FAILED}
     /\ last.activity # None
     /\ ~should_sync(engine.filter, last.activity[1].activity_type))
    => /\ last.raised = ""
       /\ last.action = "skipped"
       /\ last.downloads = 0
       /\ last.uploads = 0
       /\ \E r \in RowsOf(last.garmin_activity_id) :
             /\ r.status = SKIPPED
             /\ r.skip_reason =
                   Some(Fmt("blocked_type:", Lower(last.activity[1].activity_type)))

\* C10: upload_fit_file returns exactly one classification per provider
\* behaviour: success; duplicate (upload-failed whose text contains
\* 'duplicate' in any case); failed with the provider message; failed with
\* the fixed time-out message; failed with the exception's text; with the
\* success and is_duplicate flags consistent.
C10_UploadClassification ==
    last.behaviour # None
    => /\ last.upload # None
       /\ \E b \in {last.behaviour[1]}, u \in {last.upload[1]} :
          /\ u.is_duplicate => u.success
          /\ u.success <=> u.error = None
          /\ CASE b.kind = "success" ->
                     /\ u.success /\ ~u.is_duplicate
                     /\ u.strava_activity_id = Some(b.id)
               [] b.kind = "upload_failed" /\ Contains(Lower(b.msg), DuplicateWord) ->
                     /\ u.success /\ u.is_duplicate
                     /\ u.strava_activity_id = u.duplicate_id
               [] b.kind = "upload_failed" ->
                     /\ ~u.success /\ ~u.is_duplicate
                     /\ u.error = Some(Fmt("", b.msg))
               [] b.kind = "timeout" ->
                     /\ ~u.success /\ ~u.is_duplicate
                     /\ u.error = Some(Fmt("Upload processing timed out after 120 seconds",
                                           <<>>))
               [] OTHER ->
                     /\ ~u.success /\ ~u.is_duplicate
                     /\ u.error = Some(Fmt("", b.msg))

C10_Witness ==
    /\ last.behaviour # None
    /\ last.behaviour[1].kind = "upload_failed"
    /\ last.behaviour[1].msg # DuplicateWord
    /\ last.upload[1].is_duplicate
    /\ last.upload[1].duplicate_id = Some(<<"7","7">>)

\* C11: a provider duplicate error is never a failure: the upload result
\* has success and is_duplicate set, the processor writes a DUPLICATE row
\* whose destination id is the recovered duplicate id (or null) and returns
\* outcome `duplicate`.
C11_DuplicateIsRecorded ==
    (last.upload # None /\ last.upload[1].is_duplicate)
    => /\ last.upload[1].success
       /\ last.raised = ""
       /\ last.action = "duplicate"
       /\ \E r \in RowsOf(last.garmin_activity_id) :
             /\ r.status = DUPLICATE
             /\ r.strava_activity_id = last.upload[1].duplicate_id

\* the step is the start of a cycle (run record, authentication, boundary,
\* fetch)
CycleStarts == pc = "idle" /\ auth_seen'.calls = 1

\* C12: when the stored token has expires_at < now + 300 s as the cycle
\* authenticates, a refresh is invoked, and the refreshed token is persisted
\* and installed on the client before any upload of the cycle; when the
\* token is not within 300 s of expiry, no refresh is invoked.
C12_RefreshWithinBuffer ==
    [][ /\ (CycleStarts /\ auth_seen'.token_reads = 1 /\ strava_tokens # None)
           => IF strava_tokens[1].expires_at < Seconds(now) + BufferSeconds
              THEN /\ auth_seen'.refresh_calls = 1
                   /\ auth_seen'.refreshed
                      => /\ strava_tokens' = Some(refresh_token(now))
                         /\ engine'.access_token = Some(refresh_token(now).access_token)
                   /\ ~auth_seen'.refreshed => pc' = "idle" /\ ended' = "raised"
              ELSE /\ auth_seen'.refresh_calls = 0
                   /\ strava_tokens' = strava_tokens
                   /\ engine'.access_token = Some(strava_tokens[1].access_token)
        /\ (AtCall /\ last'.uploads > 0)
           => /\ auth_seen.calls = 1
              /\ auth_seen.error = ""
              /\ strava_tokens # None
              /\ engine.access_token = Some(strava_tokens[1].access_token)
              /\ strava_tokens[1].expires_at >= Seconds(auth_seen.at) + BufferSeconds
      ]_vars

C12_Witness ==
    /\ auth_seen.refresh_calls = 1
    /\ auth_seen.refreshed
    /\ strava_tokens = Some(refresh_token(1))
    /\ last.uploads = 1

C14_AuthFailsFatally ==
    [][ CycleStarts
        => /\ (~garth_home /\ ~engine.authenticated)
              => auth_seen'.error = "Garmin auth failed"
           /\ (auth_seen'.token_reads = 1 /\ strava_tokens = None)
              => auth_seen'.error = "Strava not authenticated"
           /\ (auth_seen'.refresh_calls = 1 /\ ~auth_seen'.refreshed)
              => /\ auth_seen'.error = "Strava not authenticated"
                 /\ strava_tokens' = strava_tokens
           /\ auth_seen'.error = "Garmin auth failed"
              => auth_seen'.token_reads = 0 /\ strava_tokens' = strava_tokens
           /\ auth_seen'.error # ""
              => /\ ended' = "raised"
                 /\ pc' = "idle"
                 /\ run'.error = Some(auth_seen'.error)
                 /\ run'.completed_at # None
                 /\ LatestRun(sync_runs') = run'
                 /\ UNCHANGED <<activities, config>>
           /\ auth_seen'.error = ""
              => /\ garth_home
                 /\ engine'.authenticated
                 /\ strava_tokens' # None
                 /\ ended' # "raised" ]_vars

C14_Witness ==
    /\ ended = "raised"
    /\ auth_seen.refresh_calls = 1
    /\ ~auth_seen.refreshed
    /\ auth_seen.error = "Strava not authenticated"
    /\ strava_tokens = Some(exchange_code(0))
    /\ now = 1

\* the latest call recorded a provider error of the source platform raised
\* by the archive download
LastDownloadRaisedGarth ==
    /\ last.downloads = 1
    /\ last.activity # None
    /\ last.activity[1].error_message = Some(Fmt("Download failed: ", <<"4","0","1">>))

\* C15: when a provider-level auth error of the source platform surfaces
\* while an activity is processed, the engine re-authenticates once and
\* retries that activity once; the cycle aborts with AuthenticationError
\* when that fails.
C15_OneReauthOneRetry ==
    LastDownloadRaisedGarth
    => \/ last.attempts = 2
       \/ ended = "raised"

\* C16: every cycle creates one run record with zero counters and null
\* completion, and however the cycle ends the completion timestamp is set
\* and persisted: no ended cycle leaves a run row without completion.
C16_EveryEndCompletes ==
    (pc = "idle" /\ RunCount(sync_runs) > 0)
    => LatestRun(sync_runs).completed_at # None

\* the error texts of the AuthenticationErrors run_cycle can raise
AuthErrors ==
    {"Garmin auth failed", "Strava not authenticated",
     "Garmin session expired mid-cycle"}

\* C17: an AuthenticationError during a cycle is recorded on the run (error
\* text, completion timestamp, row persisted) and re-raised to the caller;
\* any other exception is recorded the same way and swallowed, so that
\* run_cycle returns a result.
C17_FatalVsSwallowed ==
    /\ (auth_seen.error # "" \/ last.raised = "AuthenticationError")
       => ended = "raised"
    /\ (last.raised \notin {"", "AuthenticationError"})
       => ended = "returned" /\ run.error = Some(last.raised)
    /\ ended = "raised"
       => /\ run.error # None
          /\ run.error[1] \in AuthErrors
          /\ run.completed_at # None
          /\ Persisted = run
    /\ (ended = "returned" /\ run.error # None)
       => /\ run.error[1] \notin AuthErrors
          /\ run.completed_at # None
          /\ Persisted = run

C17_Witness ==
    /\ ended = "returned"
    /\ last.raised = "IntegrityError"
    /\ Persisted.error = Some("IntegrityError")
    /\ Persisted.completed_at # None
    /\ Len(results) = 1

(***************************************************************************)
(* Properties of the equipment pass.  `gear` is the pass of the cycle that *)
(* just completed: the listing it was given, the entries it iterated, the  *)
(* update calls it issued and what _apply_gear_rules returned.             *)
(***************************************************************************)
\* the step is the completion of a cycle whose loop is over
AtCompletion == pc = "loop" /\ idx > Len(fetched)

\* the pass listed entries (it got past the cursor read)
PassListed == gear.calls = 1 /\ gear.listing # None

\* the entries the pass iterated
Iterated == SubSeq(gear.listing[1].entries, 1, Len(gear.iterated))

\* a trainer-flagged entry of type Ride
TrainerRide(e) == e.trainer /\ e.type = <<"R","i","d","e">>

\* the indices of the rules that match entry e
RuleHits(rules, e) ==
    {i \in 1..Len(rules) : rules[i].condition = <<"t","r","a","i","n","e","r">>
                           /\ TrainerRide(e)}

\* the gear id of the first rule that matches e (when one does)
FirstTarget(rules, e) ==
    rules[CHOOSE i \in RuleHits(rules, e) : \A j \in RuleHits(rules, e) : i <= j].gear_id

\* the update calls issued for entry id
UpdatesOf(id) == {k \in 1..Len(gear.updates) : gear.updates[k].id = id}

\* C18: no failure of the equipment pass (settings read, entry listing,
\* per-entry update, cursor write) propagates out of the cycle or changes
\* its outcome: the run's error stays null, the counters and the activity
\* rows written earlier are unchanged, and run_cycle returns normally.
C18_GearFailureContained ==
    [][ AtCompletion
        => /\ pc' = "idle"
           /\ ended' = "returned"
           /\ run' = complete(run)
           /\ run'.error = None
           /\ LatestRun(sync_runs') = run'
           /\ activities' = activities
           /\ results' = results
           /\ gear'.raised = ""
           /\ gear'.caught # "" => gear'.gear_result = None ]_vars

C18_Witness ==
    /\ ended = "returned"
    /\ gear.caught = "listing"
    /\ gear.updates # <<>>
    /\ gear.gear_result = None
    /\ Persisted.error = None
    /\ Persisted.activities_synced = 1

\* C19: for each entry of the pass the rules are tried in listed order and
\* only the first match is applied: at most one update per entry, to the
\* gear id of the first matching rule; none when the entry already has that
\* gear (counted already_correct) or when no rule matches; a trainer rule
\* matches exactly the trainer-flagged entries of type Ride.  Rule
\* trainer:gA and one trainer-flagged Ride with other gear give updated=1,
\* already_correct=0, errors=0.
C19_FirstMatchOnly ==
    PassListed
    => /\ \A n \in 1..Len(Iterated) :
            LET e == Iterated[n]
            IN IF RuleHits(engine._gear_rules, e) = {}
                  \/ e.gear_id = Some(FirstTarget(engine._gear_rules, e))
               THEN UpdatesOf(e.id) = {}
               ELSE /\ Cardinality(UpdatesOf(e.id)) = 1
                    /\ \A k \in UpdatesOf(e.id) :
                          gear.updates[k].gear_id = FirstTarget(engine._gear_rules, e)
       /\ \A k \in 1..Len(gear.updates) : \E n \in 1..Len(Iterated) :
             Iterated[n].id = gear.updates[k].id
       /\ gear.gear_result # None
          => gear.gear_result[1].already_correct
                = Cardinality({n \in 1..Len(Iterated) :
                     /\ RuleHits(engine._gear_rules, Iterated[n]) # {}
                     /\ Iterated[n].gear_id
                           = Some(FirstTarget(engine._gear_rules, Iterated[n]))})
       /\ (/\ engine._gear_rules = <<GearRule(<<"t","r","a","i","n","e","r">>, <<"g","A">>)>>
           /\ Len(gear.listing[1].entries) = 1
           /\ TrainerRide(gear.listing[1].entries[1])
           /\ gear.listing[1].entries[1].gear_id # Some(<<"g","A">>)
           /\ gear.gear_result # None
           /\ \A k \in 1..Len(gear.updates) : gear.updates[k].ok)
          => gear.gear_result[1] = [checked |-> 1, updated |-> 1,
                                    already_correct |-> 0, errors |-> 0]

C19_Witness ==
    /\ PassListed
    /\ Len(engine._gear_rules) = 2
    /\ gear.iterated = <<2, 1>>
    /\ gear.updates = <<[id |-> 2, gear_id |-> <<"g","B">>, ok |-> TRUE]>>
    /\ gear.gear_result = Some([checked |-> 2, updated |-> 1,
                                already_correct |-> 1, errors |-> 0])

\* C20: an exception while updating one entry is counted in errors and does
\* not stop the pass: every remaining listed entry is still evaluated, and
\* the counters satisfy checked = entries iterated, updated +
\* already_correct + errors <= checked, updated + errors = update calls.
C20_UpdateErrorsCounted ==
    PassListed
    => /\ Len(gear.iterated) = gear.listing[1].yielded
       /\ gear.listing[1].fails = "" => Len(gear.iterated) = Len(gear.listing[1].entries)
       /\ \A n \in 1..Len(gear.iterated) : gear.iterated[n] = gear.listing[1].entries[n].id
       /\ gear.gear_result # None
          => LET r == gear.gear_result[1]
             IN /\ r.checked = Len(gear.iterated)
                /\ r.updated + r.already_correct + r.errors <= r.checked
                /\ r.updated + r.errors = Len(gear.updates)
                /\ r.errors = Cardinality({k \in 1..Len(gear.updates) : ~gear.updates[k].ok})
                /\ r.updated = Cardinality({k \in 1..Len(gear.updates) : gear.updates[k].ok})

C20_Witness ==
    /\ PassListed
    /\ gear.updates = <<[id |-> 1, gear_id |-> <<"g","A">>, ok |-> FALSE],
                        [id |-> 5, gear_id |-> <<"g","A">>, ok |-> TRUE]>>
    /\ gear.gear_result = Some([checked |-> 2, updated |-> 1,
                                already_correct |-> 0, errors |-> 1])

\* the iteration of the listing raised and the exception left
\* apply_gear_rules (its caller _apply_gear_rules caught it)
PassRaised == gear.caught = "listing"

\* C21: when the equipment pass cannot list entries (the listing fails
\* before or while entries are fetched), apply_gear_rules issues no further
\* update and returns the zeroed or partial result instead of raising to
\* its caller.
C21_ListingFailureReturns ==
    (PassListed /\ gear.listing[1].fails # "")
    => /\ ~PassRaised
       /\ Len(gear.iterated) <= gear.listing[1].yielded

(***************************************************************************)
(* Properties of the `garava run` process.                                 *)
(***************************************************************************)
\* C22: in continuous mode an authentication failure is fatal only to the
\* current cycle: after a cycle ended with AuthenticationError the process
\* keeps running, the cycle is recorded with its error, and the next
\* scheduled cycle is still attempted.
C22_AuthFailureKeepsRunning ==
    ended = "raised"
    => /\ process = "running"
       /\ Persisted.error # None
       /\ Persisted.completed_at # None

\* C23: the continuous loop honours a stop signal only between cycles: a
\* signal arriving during a cycle does not interrupt it, and the cycle's run
\* record is finalized before the loop exits.
C23_StopOnlyBetweenCycles ==
    [][ pc = "loop"
        => \/ pc' = "loop"
           \/ /\ ended' \in {"returned", "raised"}
              /\ LatestRun(sync_runs').completed_at # None ]_vars

\* C24: execution is strictly serial: a cycle starts only when no cycle is
\* in progress (the one before has ended, through its error path or not),
\* and within a cycle the activities are processed one per iteration, in
\* the order the source platform returned them.
C24_StrictlySerial ==
    [][ /\ RunCount(sync_runs') # RunCount(sync_runs)
           => /\ pc = "idle"
              /\ process = "running"
              /\ RunCount(sync_runs') = RunCount(sync_runs) + 1
              /\ RunCount(sync_runs) > 0
                 => LatestRun(sync_runs).completed_at # None \/ ended = "none"
        /\ pc = "loop"
           => /\ fetched' = fetched \/ pc' = "idle"
              /\ idx' = idx \/ idx' = idx + 1
              /\ Len(results) = idx - 1
              /\ \A i \in 1..Len(results) :
                    results[i].garmin_activity_id = fetched[i].activity_id
        /\ AtCall
           => /\ last'.garmin_activity_id = fetched[idx].activity_id
              /\ idx' = idx + 1
                 => results' = Append(results,
                                      [garmin_activity_id |-> fetched[idx].activity_id,
                                       action |-> last'.action]) ]_vars

C24_Witness ==
    /\ pc = "loop"
    /\ RunCount(sync_runs) = 2
    /\ Len(fetched) = 2
    /\ Len(results) = 2
    /\ results[1].garmin_activity_id = fetched[1].activity_id
    /\ results[2].garmin_activity_id = fetched[2].activity_id
    /\ last.garmin_activity_id = fetched[2].activity_id

(***************************************************************************)
(* Properties of the pure functions.                                       *)
(***************************************************************************)
\* lowercased and trimmed
Normalized(text) == Strip(Lower(text))

\* C25: for every classification that equals a block-set entry after
\* lowercasing and trimming, should_sync is false and get_block_reason is a
\* non-null string; for every other classification should_sync is true and
\* get_block_reason is None.
C25_FilterDecides ==
    probe.op = "filter"
    => IF \E t \in probe.blocked_types :
             Normalized(t) = Normalized(probe.activity_type)
       THEN /\ ~probe.should_sync
            /\ probe.reason # None
            /\ probe.reason[1].pre = "blocked_type:"
       ELSE /\ probe.should_sync
            /\ probe.reason = None

C25_Witness ==
    /\ probe.op = "filter"
    /\ probe.blocked_types = { <<"A", "b", " ">> }
    /\ probe.activity_type = <<" ", "a", "B">>
    /\ ~probe.should_sync
    /\ probe.reason = Some(Fmt("blocked_type:", <<" ", "a", "b">>))

\* the positions of the members of the probed archive whose name ends in
\* .fit, case-insensitively
FitMembers ==
    {i \in 1..Len(probe.zip_bytes.entries) : IsFitName(probe.zip_bytes.entries[i].name)}

\* C26: extraction from an archive seen as an ordered list of (name, bytes)
\* members: with members named *.fit (case-insensitive) it returns the bytes
\* of the first of them in listing order, unchanged and without failing;
\* with none, or with an invalid archive, it fails with an extraction error.
C26_FirstFitMember ==
    probe.op = "extract"
    => IF ~probe.zip_bytes.valid \/ FitMembers = {}
       THEN /\ probe.result.raised = "FitExtractionError"
            /\ probe.result.bytes = None
       ELSE /\ probe.result.raised = ""
            /\ probe.result.bytes =
                  Some(probe.zip_bytes.entries[
                          CHOOSE i \in FitMembers : \A j \in FitMembers : i <= j].data)

(***************************************************************************)
(* Properties of the activities table.                                     *)
(***************************************************************************)
\* C27: in every store state each source activity id has at most one row
\* whose status is not FAILED, and a FAILED row for an id does not prevent a
\* later row for the same id from being inserted.
C27_FailedRowDoesNotBlock ==
    /\ \A r1, r2 \in activities :
          (/\ r1.garmin_activity_id = r2.garmin_activity_id
           /\ r1.status # FAILED
           /\ r2.status # FAILED) => r1 = r2
    /\ (last.prior = FAILED /\ last.action # "exists")
       => Cardinality(RowsOf(last.garmin_activity_id)) > 1

\* C28: each call of process_activity that returns an outcome other than
\* `exists` inserts exactly one row, whose status is the outcome tag, and
\* no step ever updates or deletes an existing row.
C28_OneRowPerOutcome ==
    [][ /\ activities \subseteq activities'
        /\ (AtCall /\ last'.raised = "" /\ last'.action # "exists")
           => /\ last'.action \in {SYNCED, SKIPPED, DUPLICATE, FAILED}
              /\ last'.activity # None
              /\ last'.activity[1] \notin activities
              /\ activities' = activities \cup {last'.activity[1]}
              /\ last'.activity[1].status = last'.action
              /\ last'.activity[1].garmin_activity_id = fetched[idx].activity_id
        /\ (AtCall /\ (last'.raised # "" \/ last'.action = "exists"))
           => activities' = activities
        /\ ~AtCall => activities' = activities ]_vars

C28_Witness ==
    /\ last.action = "failed"
    /\ last.raised = ""
    /\ last.activity # None
    /\ last.activity[1] \in activities
    /\ last.activity[1].status = FAILED
    /\ Cardinality(activities) = 2

\* C30: when the archive download or the extraction raises for an activity
\* that passed the exists, filter and boundary checks, process_activity
\* writes a FAILED row carrying the error text, returns outcome `failed`,
\* and submits no upload.
C30_DownloadFailureRecorded ==
    (last.downloads = 1 /\ last.uploads = 0)
    => /\ last.raised = ""
       /\ last.action = "failed"
       /\ \E r \in RowsOf(last.garmin_activity_id) :
             /\ r = last.activity[1]
             /\ r.status = FAILED
             /\ r.error_message # None

\* the listener and helper thread of the flow in progress (or just returned)
CurrentListener == flow.listeners[flow.n]

\* C29 (as the code has it): in every flow the helper thread handles at most
\* one inbound request; the waiting loop ends and the listener is closed
\* within the timeout plus one polling period whether or not a request
\* arrives, and it is closed before the timeout only when the helper thread
\* has ended; run_oauth_flow then returns at once unless a code was captured,
\* in which case it returns after the code exchange, whose duration the
\* timeout does not bound.
C29_ListenerBounded ==
    /\ \A k \in 1..Len(flow.listeners) : flow.listeners[k].handled <= 1
    /\ flow.pc \in {"closed", "returned"}
       => /\ CurrentListener.server = "closed"
          /\ flow.closed_at <= FlowTimeout + 1
          /\ flow.closed_at < FlowTimeout => ~is_alive(CurrentListener)
    /\ flow.pc = "returned"
       => /\ flow.exchange_calls = 0 => flow.elapsed = flow.closed_at
          /\ flow.exchange_calls = 1 => flow.elapsed <= flow.closed_at + MaxExchange

\* a flow whose request was handled before the timeout has returned after an
\* exchange
C29_Witness ==
    /\ flow.pc = "returned"
    /\ CurrentListener.handled = 1
    /\ CurrentListener.server = "closed"
    /\ flow.closed_at < FlowTimeout
    /\ flow.exchange_calls = 1

\* C29 (as stated): run_oauth_flow returns within the timeout plus one
\* polling period whether or not a request arrives.
C29_ReturnsWithinTimeout ==
    flow.pc = "returned" => flow.elapsed <= FlowTimeout + 1

\* text[i..] reads kw in any case, then one or more ':' or whitespace up to
\* j - 1, then the maximal run of digits j..k
KeywordCapture(text, kw, i, j, k) ==
    /\ i + Len(kw) < j /\ j <= k /\ k <= Len(text)
    /\ \A m \in 1..Len(kw) : Lower(<<text[i + m - 1]>>) = <<kw[m]>>
    /\ \A m \in (i + Len(kw))..(j - 1) : IsSep(text[m])
    /\ \A m \in j..k : IsDigit(text[m])
    /\ k = Len(text) \/ ~IsDigit(text[k + 1])

\* the digits the keyword pattern captures at its leftmost match, if any
KeywordCaptures(text, kw) ==
    { SubSeq(text, c[2], c[3]) :
        c \in { t \in (1..Len(text)) \X (1..Len(text)) \X (1..Len(text)) :
                  /\ KeywordCapture(text, kw, t[1], t[2], t[3])
                  /\ \A u \in (1..(t[1] - 1)) \X (1..Len(text)) \X (1..Len(text)) :
                        ~KeywordCapture(text, kw, u[1], u[2], u[3]) } }

\* the first maximal run of at least 10 digits, if any
LongRuns(text) ==
    { SubSeq(text, c[1], c[2]) :
        c \in { t \in (1..Len(text)) \X (1..Len(text)) :
                  /\ t[2] - t[1] + 1 >= 10
                  /\ \A m \in t[1]..t[2] : IsDigit(text[m])
                  /\ t[2] = Len(text) \/ ~IsDigit(text[t[2] + 1])
                  /\ \A b \in 1..(t[1] - 1) :
                        \E m \in b..(b + 9) : m > Len(text) \/ ~IsDigit(text[m]) } }

\* C31: the id recovery returns the digits captured by the first of three
\* patterns that matches anywhere in the text, tried in this order:
\* 'activity' (any case), colons/whitespace, digits; 'id', colons/whitespace,
\* digits; the first run of at least 10 digits; it returns None when none
\* matches, and an upload-failed text naming a duplicate yields a successful
\* duplicate result carrying that id, None included.
C31_ThreePatternsInOrder ==
    probe.op = "parse"
    => /\ \E a \in {KeywordCaptures(probe.error_message, <<"a","c","t","i","v","i","t","y">>)},
             i \in {KeywordCaptures(probe.error_message, <<"i","d">>)},
             r \in {LongRuns(probe.error_message)} :
             /\ a # {} => probe.duplicate_id \in {Some(d) : d \in a}
             /\ a = {} /\ i # {} => probe.duplicate_id \in {Some(d) : d \in i}
             /\ a = {} /\ i = {} /\ r # {} => probe.duplicate_id \in {Some(d) : d \in r}
             /\ a = {} /\ i = {} /\ r = {} => probe.duplicate_id = None
             /\ Cardinality(a) <= 1 /\ Cardinality(i) <= 1 /\ Cardinality(r) <= 1
       /\ Contains(Lower(probe.error_message), DuplicateWord)
          => /\ probe.upload.success
             /\ probe.upload.is_duplicate
             /\ probe.upload.duplicate_id = probe.duplicate_id
             /\ probe.upload.strava_activity_id = probe.duplicate_id

\* a duplicate text where the 'id' pattern matches to the left of the
\* 'activity' pattern
C31_Witness ==
    /\ probe.op = "parse"
    /\ probe.error_message = <<"D","u","p","l","i","c","a","t","e"," ","i","d",":"," ","5","A","c","t","i","v","i","t","y",":"," ","7","7">>
    /\ probe.duplicate_id = Some(<<"7","7">>)
    /\ probe.upload.is_duplicate

\* C32: every equipment pass a cycle runs (no store failure assumed) is
\* given the stored cursor as its `after` bound and leaves the cursor at the
\* time of the pass, also when its entry listing failed; without equipment
\* rules the settings are left unchanged.
C32_CursorFollowsPass ==
    [][ AtCompletion
        => IF engine._gear_rules = <<>>
           THEN config' = config
           ELSE gear'.caught \notin {"get_config", "set_config"}
                => /\ config'["last_gear_check_time"] = Some(IsoFormatUtc(now))
                   /\ gear'.after =
                         IF config["last_gear_check_time"] = None THEN None
                         ELSE Some(fromisoformat(config["last_gear_check_time"][1])) ]_vars

\* C33: every stored activity row is well-formed for its status: the skip
\* reason is non-null exactly on SKIPPED rows, the error detail is non-null
\* exactly on FAILED rows, every SYNCED row has a destination id, and only
\* SYNCED and DUPLICATE rows carry one.
C33_RowsWellFormed ==
    \A r \in activities :
        /\ r.status \in ActivityStatus
        /\ r.skip_reason # None <=> r.status = SKIPPED
        /\ r.error_message # None <=> r.status = FAILED
        /\ r.status = SYNCED => r.strava_activity_id # None
        /\ r.strava_activity_id # None => r.status \in {SYNCED, DUPLICATE}

\* a store holding a SKIPPED row and a DUPLICATE row without destination id
C33_Witness ==
    /\ \E r \in activities : r.status = SKIPPED /\ r.skip_reason # None
    /\ \E r \in activities : r.status = DUPLICATE /\ r.strava_activity_id = None

\* C34: the token table never holds more than one row: every save leaves
\* exactly one row, with id 1, holding the token just saved (the one the
\* authorization flow obtained or the refreshed one); and the expiry check
\* made as a cycle authenticates is true exactly when expires_at is less
\* than now + 300 s.
C34_SingleTokenRow ==
    [][ /\ Len(strava_tokens') <= 1
        /\ strava_tokens' # strava_tokens
           => /\ Len(strava_tokens') = 1
              /\ strava_tokens'[1].id = 1
              /\ strava_tokens'[1] \in {exchange_code(now), refresh_token(now)}
        /\ (CycleStarts /\ auth_seen'.token_reads = 1 /\ strava_tokens # None)
           => (auth_seen'.refresh_calls = 1
                 <=> strava_tokens[1].expires_at < Seconds(now) + BufferSeconds)
      ]_vars

\* the token of the authorization flow has been overwritten by a refresh
C34_Witness ==
    /\ Len(strava_tokens) = 1
    /\ strava_tokens[1].id = 1
    /\ strava_tokens[1] = refresh_token(1)
    /\ auth_seen.refresh_calls = 1

\* the quarter-hour marks of the days around the times tried
QuarterMarks ==
    { [day |-> d, hour |-> h, minute |-> m, second |-> 0, microsecond |-> 0] :
        d \in 0..(MaxDay + 1), h \in 0..23, m \in {0, 15, 30, 45} }

\* datetime a is later than datetime b
Later(a, b) ==
    \/ Secs(a) > Secs(b)
    \/ Secs(a) = Secs(b) /\ a.microsecond > b.microsecond

\* C35: for every wall-clock time now, next_time is a quarter-hour mark
\* (minute 0, 15, 30 or 45, zero seconds and microseconds) strictly later
\* than now, no quarter-hour mark lies strictly between now and next_time,
\* from minutes 45-59 it is minute 0 of the next hour, and the sleep
\* duration is between 1 and 900 seconds.
C35_NextQuarterHour ==
    probe.op = "quarter"
    => /\ probe.next_time \in QuarterMarks
       /\ Later(probe.next_time, probe.now)
       /\ \A q \in QuarterMarks :
             Later(q, probe.now) => ~Later(probe.next_time, q)
       /\ probe.now.minute >= 45
          => /\ probe.next_time.minute = 0
             /\ Secs(probe.next_time)
                   = Secs([probe.now EXCEPT !.minute = 0, !.second = 0]) + 3600
       /\ probe.seconds >= 1000000
       /\ probe.seconds <= 900 * 1000000
       /\ probe.seconds >= Elapsed(probe.next_time, probe.now)

\* the last microsecond of a day: the mark is midnight of the next day and
\* the duration is raised to one second
C35_Witness ==
    /\ probe.op = "quarter"
    /\ probe.now = [day |-> 0, hour |-> 23, minute |-> 59, second |-> 59, microsecond |-> 999999]
    /\ probe.next_time = [day |-> 1, hour |-> 0, minute |-> 0, second |-> 0, microsecond |-> 0]
    /\ probe.seconds = 1000000

\* the source activity the step processes
Processed == LoopActivity(fetched, idx)

\* C36: a processing attempt submits at most one upload, and submits it only
\* when the store holds no non-FAILED row for the source activity, its
\* classification is not in the block-set, its start time is not before the
\* boundary and its download returned the telemetry; so no upload is ever
\* submitted for an activity that has a SYNCED, SKIPPED or DUPLICATE row.
C36_UploadOnlyWhenDue ==
    [][ AtCall /\ last'.uploads > 0
        => /\ last'.uploads = 1
           /\ last'.garmin_activity_id = Processed.activity_id
           /\ \A r \in activities :
                 r.garmin_activity_id = Processed.activity_id => r.status = FAILED
           /\ Strip(Lower(Processed.activity_type)) \notin engine.filter
           /\ cycle_ist # None
           /\ ~LexLess(ReplaceChar(Processed.start_time, " ", "T"),
                       ReplaceChar(cycle_ist[1], " ", "T"))
           /\ last'.downloads = 1
           /\ last'.download # None
           /\ last'.download[1].raised = "" ]_vars

\* an upload was submitted for an activity whose earlier attempt had failed
C36_Witness ==
    /\ last.uploads = 1
    /\ last.prior = FAILED
    /\ last.download # None
    /\ last.download[1].raised = ""

\* C37: when the upload step of process_activity succeeded (the destination
\* reported success or a duplicate), the call returns and the store holds a
\* SYNCED, respectively DUPLICATE, row for the source id, whatever row the
\* store held before, a FAILED row included.
C37_SuccessfulUploadRecorded ==
    (last.upload # None /\ last.upload[1].success)
    => /\ last.raised = ""
       /\ \E r \in RowsOf(last.garmin_activity_id) :
             /\ r.status = IF last.upload[1].is_duplicate THEN DUPLICATE ELSE SYNCED
             /\ r.strava_activity_id = last.upload[1].strava_activity_id

\* C38: when authentication fails at the start of a cycle, only the run
\* record changes: the activities, settings (initial-sync boundary included)
\* and token tables and the saved session are unchanged, nothing is fetched,
\* no activity is processed, no upload or equipment call is made, and the
\* run persisted for the cycle has its four counters zero, its error set and
\* its completion time set.
C38_AuthFailureFrame ==
    [][ (CycleStarts /\ auth_seen'.error # "")
        => /\ UNCHANGED <<activities, config, strava_tokens, garth_home>>
           /\ fetched' = <<>>
           /\ cycle_ist' = None
           /\ engine'._initial_sync_time = engine._initial_sync_time
           /\ results' = <<>>
           /\ last' = NoCall
           /\ gear' = NoGear
           /\ RunCount(sync_runs') = RunCount(sync_runs) + 1
           /\ LatestRun(sync_runs') = run'
           /\ run' = [SyncRun(RunCount(sync_runs) + 1) EXCEPT
                         !.error = Some(auth_seen'.error),
                         !.completed_at = run'.completed_at]
           /\ run'.completed_at # None ]_vars

\* a cycle whose token refresh failed, in a store that already holds the
\* boundary and the token of an earlier cycle
C38_Witness ==
    /\ ended = "raised"
    /\ auth_seen.refresh_calls = 1
    /\ ~auth_seen.refreshed
    /\ config["initial_sync_time"] # None
    /\ RunCount(sync_runs) = 2
    /\ run.error = Some("Strava not authenticated")
    /\ fetched = <<>>

\* C39: a token refresh changes only the access token, the refresh token
\* and the expiry of the stored credential: the account identifier stored by
\* the authorization flow is the same after the refresh.
C39_RefreshKeepsAccount ==
    [][ (CycleStarts /\ auth_seen'.refreshed)
        => /\ Len(strava_tokens') = 1
           /\ strava_tokens'[1].id = strava_tokens[1].id
           /\ strava_tokens'[1].athlete_id = strava_tokens[1].athlete_id ]_vars

\* C40: the result of a flow depends only on the request its own listener
\* received: it is a success only if that request carried a code (and the
\* exchange was made), a request carrying an error and no code, handled
\* before the wait ended, gives a failure with that error, and the failure
\* 'Authorization timed out' is returned only when the wait ended by the
\* timeout, no request having been handled before.
C40_OutcomeFromOwnRequest ==
    flow.pc = "returned"
    => /\ flow.result[1].success
          => /\ CurrentListener.request # None
             /\ CurrentListener.request[1].code # None
             /\ flow.exchange_calls = 1
       /\ (/\ CurrentListener.handled = 1
           /\ flow.closed_at < FlowTimeout
           /\ CurrentListener.request[1].code = None
           /\ CurrentListener.request[1].error # None)
          => /\ ~flow.result[1].success
             /\ flow.result[1].error
                   \in {CurrentListener.request[1].error,
                        CurrentListener.request[1].error_description} \ {None}
       /\ flow.result[1].error = Some("Authorization timed out")
          => flow.closed_at >= FlowTimeout

====
